---- MODULE Spec2Model ----
(***************************************************************************)
(* Email Tracker extension: the record store kept under the storage key    *)
(* 'emailMappings' (domain -> list of {email, apiUrl, timestamp, count}),   *)
(* the background message handlers that read and write it, the completed-   *)
(* web-request path, the storage utilities and the Convex sync.             *)
(*                                                                         *)
(* A hostname is the sequence of its labels ("www.example.com" is           *)
(* <<"www", "example", "com">>, the empty string is <<"">>), as            *)
(* String.split('.') yields it.  A URL is a record of its host and path.    *)
(***************************************************************************)
EXTENDS Integers, Sequences, FiniteSets, TLC

VARIABLES
  store,       \* chrome.storage.local['emailMappings']: function domain -> list
  settings,    \* chrome.storage.local['trackingSettings']
  remoteRows,  \* Convex table "emailMappings" of the one user, in insertion order
  convex,      \* SyncService.convex is set (client initialized)
  now,         \* last value returned by Date.now()
  steps,       \* number of operations run so far
  merged,      \* result of the last smartMerge
  last,        \* the last operation: its type, arguments and reply
  pending,     \* message handlers between their storage read and their write
  search       \* a running recursive JSON search: its calls still to be made

vars ==
  <<store, settings, remoteRows, convex, now, steps, merged, last, pending, search>>

----------------------------------------------------------------------------
(* Bounds of the model *)

MaxSteps == 2

\* The value of an absent (undefined) property or argument.
Undefined == "undefined"

ExampleCom == <<"example", "com">>
WwwExampleCom == <<"www", "example", "com">>
LoginExampleCoUk == <<"login", "example", "co", "uk">>

\* Hostnames of the pages and tabs the events come from.
Hosts == {ExampleCom, WwwExampleCom}

\* Emails that already sit in a pre-filled list, oldest first.
EmailPool ==
  <<"u01@x.com", "u02@x.com", "u03@x.com", "u04@x.com", "u05@x.com",
    "u06@x.com", "u07@x.com", "u08@x.com", "u09@x.com", "u10@x.com">>

\* Emails the events and requests carry.
InputEmails == {"u01@x.com", "u02@x.com", "new@x.com"}

\* Path of the page an event comes from, and paths of completed requests.
Paths == {"/oauth/callback"}

RequestPaths == {"/oauth/callback", "/home"}

Descriptions == {Undefined, "work"}

Strategies == {"LOCAL_WINS", "REMOTE_WINS", "LATEST_WINS"}

----------------------------------------------------------------------------
(* Plain JavaScript helpers *)

Min(a, b) == IF a < b THEN a ELSE b

Max(a, b) == IF a > b THEN a ELSE b

\* Array.prototype.findIndex(entry => entry.email === email), 1-based; 0 = -1.
RECURSIVE FindIndexFrom(_, _, _)
FindIndexFrom(list, email, i) ==
  IF i > Len(list) THEN 0
  ELSE IF list[i].email = email THEN i
  ELSE FindIndexFrom(list, email, i + 1)

FindIndex(list, email) == FindIndexFrom(list, email, 1)

\* Array.prototype.slice(0, n)
Slice(list, n) == SubSeq(list, 1, Min(n, Len(list)))

\* Array.prototype.filter(entry => entry.email !== email)
FilterOut(list, email) == SelectSeq(list, LAMBDA r : r.email # email)

\* obj[key] = value
SetKey(obj, key, value) ==
  [k \in (DOMAIN obj) \cup {key} |-> IF k = key THEN value ELSE obj[k]]

\* delete obj[key]
DeleteKey(obj, key) == [k \in (DOMAIN obj) \ {key} |-> obj[k]]

\* obj[key] after `if (!obj[key]) obj[key] = []`
ListOf(obj, key) == IF key \in DOMAIN obj THEN obj[key] ELSE << >>

EmptyObject == [k \in {} |-> << >>]

Entry(email, apiUrl, timestamp, count) ==
  [email |-> email, apiUrl |-> apiUrl, timestamp |-> timestamp,
   count |-> count, description |-> Undefined]

PageUrl(host, path) == [scheme |-> "https", host |-> host, path |-> path]

ManualUrl(domain) == [scheme |-> "manual", host |-> domain, path |-> ""]

----------------------------------------------------------------------------
(* Domain normalizer *)

ToLowerCaseLabel(l) ==
  CASE l = "WWW" -> "www"
    [] l = "Example" -> "example"
    [] l = "COM" -> "com"
    [] OTHER -> l

ToLowerCase(h) == [i \in 1..Len(h) |-> ToLowerCaseLabel(h[i])]

separateTlds ==
  { <<"co", "uk">>, <<"co", "jp">>, <<"co", "kr">>, <<"com", "au">>,
    <<"co", "nz">>, <<"co", "za">>, <<"com", "br">>, <<"com", "mx">>,
    <<"co", "in">>, <<"co", "ca">>, <<"com", "sg">>, <<"com", "hk">>,
    <<"co", "th">>, <<"com", "tw">>, <<"com", "tr">>, <<"com", "ar">> }

\* getRootDomain without the lookup of two-part suffixes: a fault the
\* contract of the normalizer has to detect.
getRootDomain_LastTwo(domain) ==
  IF domain = <<"">> THEN domain
  ELSE
    LET lower == ToLowerCase(domain)
        cleanDomain == IF Len(lower) >= 2 /\ lower[1] = "www"
                       THEN Tail(lower) ELSE lower
        n == Len(cleanDomain)
    IN  IF n <= 2 THEN cleanDomain
        ELSE SubSeq(cleanDomain, n - 1, n)

getRootDomain(domain) ==
  IF domain = <<"">> THEN domain
  ELSE
    LET lower == ToLowerCase(domain)
        cleanDomain == IF Len(lower) >= 2 /\ lower[1] = "www"
                       THEN Tail(lower) ELSE lower
        n == Len(cleanDomain)
    IN  IF n <= 2 THEN cleanDomain
        ELSE IF SubSeq(cleanDomain, n - 1, n) \in separateTlds
             THEN SubSeq(cleanDomain, n - 2, n)
             ELSE SubSeq(cleanDomain, n - 1, n)

\* DomainUtils.SEPARATE_TLDS of the Gmail extractor: the set of the
\* background script and 32 more entries (com.vc twice), all 'com.xx'.
SEPARATE_TLDS ==
  separateTlds \cup
  { <<"com", x>> : x \in
      {"co", "pe", "ve", "ec", "uy", "py", "bo", "gt", "sv", "hn", "ni", "cr",
       "pa", "do", "pr", "jm", "tt", "bb", "lc", "vc", "gd", "ag", "dm", "kn",
       "ms", "ai", "vg", "bm", "ky", "tc", "fk"} }

\* DomainUtils.getRootDomain
DomainUtilsGetRootDomain(domain) ==
  IF domain = <<"">> THEN domain
  ELSE
    LET lower == ToLowerCase(domain)
        cleanDomain == IF Len(lower) >= 2 /\ lower[1] = "www"
                       THEN Tail(lower) ELSE lower
        n == Len(cleanDomain)
    IN  IF n <= 2 THEN cleanDomain
        ELSE IF SubSeq(cleanDomain, n - 1, n) \in SEPARATE_TLDS
             THEN SubSeq(cleanDomain, n - 2, n)
             ELSE SubSeq(cleanDomain, n - 1, n)

----------------------------------------------------------------------------
(* The record of an operation: its type, the domain and email it was given, *)
(* the success and error fields of its reply (Undefined when the reply has  *)
(* no such field or there is no reply), the strategy of a sync, for an      *)
(* upsert whether it found the email in the domain's list and the source    *)
(* URL it was given, the call that failed during a sync, and the newEmail   *)
(* of an EDIT_EMAIL, and the argument of a call of a pure function.         *)

Reply(op, domain, email, success, error) ==
  [op |-> op, domain |-> domain, email |-> email,
   success |-> success, error |-> error, strategy |-> Undefined,
   existed |-> FALSE, url |-> Undefined, fault |-> "none",
   newEmail |-> Undefined, input |-> Undefined]

Found(reply, list) == [reply EXCEPT !.existed = FindIndex(list, reply.email) > 0]

WithUrl(reply, url) == [reply EXCEPT !.url = url]

NoDomain == <<"">>

\* No JSON search is running.
NoSearch ==
  [fn |-> "none", stack |-> << >>, calls |-> {}, ncalls |-> 0, result |-> << >>]

----------------------------------------------------------------------------
(* Background script: validation and the record store operations.  Each    *)
(* operator below is the value a handler passes to chrome.storage.local.set *)
(* computed from the value chrome.storage.local.get gave it.                *)

\* isValidEmail of the background script on the emails of this model: none
\* of the pool emails holds a rejected fragment, all hold '@' and are longer
\* than 5 characters; "noreply@x.com" matches /noreply/.
isValidEmail(email) == email # Undefined /\ email # "noreply@x.com"

\* oauthPatterns.some(pattern => pattern.test(details.url))
isOAuthUrl(url) == url.path \in {"/login", "/oauth/callback"}

\* storeEmailMapping: the value persisted (the existing-entry branch mutates
\* the in-memory copy only and never calls set).
storeEmailMapping(storage, domain, email, apiUrl, t) ==
  LET list == ListOf(storage, domain)
      existingEntry == FindIndex(list, email)
  IN  IF existingEntry = 0
      THEN SetKey(storage, domain, Slice(<<Entry(email, apiUrl, t, 1)>> \o list, 10))
      ELSE storage

\* LOGIN_DETECTED with the truncation to 10 left out: a fault the cap
\* property has to detect.
LoginDetected_Uncapped(mappings, website, email, timestamp, url) ==
  LET list == ListOf(mappings, website)
      existingEntry == FindIndex(list, email)
  IN  IF existingEntry = 0
      THEN SetKey(mappings, website, <<Entry(email, url, timestamp, 1)>> \o list)
      ELSE SetKey(mappings, website,
                  [list EXCEPT ![existingEntry].timestamp = timestamp,
                               ![existingEntry].count = @ + 1])

\* LOGIN_DETECTED
LoginDetected(mappings, website, email, timestamp, url) ==
  LET list == ListOf(mappings, website)
      existingEntry == FindIndex(list, email)
  IN  IF existingEntry = 0
      THEN SetKey(mappings, website,
                  Slice(<<Entry(email, url, timestamp, 1)>> \o list, 10))
      ELSE SetKey(mappings, website,
                  [list EXCEPT ![existingEntry].timestamp = timestamp,
                               ![existingEntry].count = @ + 1])

\* ADD_EMAIL, when the email is not yet in the domain's list
AddEmail(mappings, domain, email, t) ==
  SetKey(mappings, domain,
         Slice(<<Entry(email, ManualUrl(domain), t, 1)>> \o ListOf(mappings, domain), 10))

\* DELETE_EMAIL without the removal of an emptied domain's key: a fault the
\* property of the last record's removal has to detect.
DeleteEmail_KeepsKey(mappings, domain, email) ==
  SetKey(mappings, domain, FilterOut(mappings[domain], email))

\* DELETE_EMAIL, when the domain is present
DeleteEmail(mappings, domain, email) ==
  LET list == FilterOut(mappings[domain], email)
  IN  IF Len(list) = 0 THEN DeleteKey(mappings, domain)
      ELSE SetKey(mappings, domain, list)

\* DELETE_DOMAIN, when the domain is present
DeleteDomain(mappings, domain) == DeleteKey(mappings, domain)

\* EDIT_DOMAIN, when oldDomain is present
\* EDIT_DOMAIN emptying the old key in place of deleting it: a fault the
\* property of the domain keys has to detect.
EditDomain_LeavesOldKey(mappings, oldDomain, newDomain) ==
  SetKey(SetKey(mappings, newDomain, mappings[oldDomain]), oldDomain, << >>)

EditDomain(mappings, oldDomain, newDomain) ==
  DeleteKey(SetKey(mappings, newDomain, mappings[oldDomain]), oldDomain)

\* EDIT_EMAIL without the refresh of the timestamp: a fault the property of
\* the in-place rename has to detect.
EditEmail_KeepsTimestamp(mappings, domain, emailIndex, newEmail, description, t) ==
  SetKey(mappings, domain,
         [mappings[domain] EXCEPT
            ![emailIndex].email = newEmail,
            ![emailIndex].description =
               IF description # Undefined THEN description ELSE @])

\* EDIT_EMAIL, when the domain holds oldEmail at emailIndex
EditEmail(mappings, domain, emailIndex, newEmail, description, t) ==
  SetKey(mappings, domain,
         [mappings[domain] EXCEPT
            ![emailIndex].email = newEmail,
            ![emailIndex].timestamp = t,
            ![emailIndex].description =
               IF description # Undefined THEN description ELSE @])

----------------------------------------------------------------------------
(* Storage utilities *)

\* saveEmailMapping: the value written under STORAGE_KEY
saveEmailMapping(mappings, domain, email, apiUrl, t) ==
  LET list == ListOf(mappings, domain)
      existingIndex == FindIndex(list, email)
  IN  IF existingIndex > 0
      THEN SetKey(mappings, domain,
                  [list EXCEPT ![existingIndex].timestamp = t,
                               ![existingIndex].count = @ + 1,
                               ![existingIndex].apiUrl = apiUrl])
      ELSE SetKey(mappings, domain,
                  Slice(<<Entry(email, apiUrl, t, 1)>> \o list, 5))

RECURSIVE SumCounts(_)
SumCounts(list) ==
  IF list = << >> THEN 0 ELSE Head(list).count + SumCounts(Tail(list))

RECURSIVE SumLengths(_, _)
SumLengths(mappings, keys) ==
  IF keys = {} THEN 0
  ELSE LET k == CHOOSE x \in keys : TRUE
       IN  Len(mappings[k]) + SumLengths(mappings, keys \ {k})

RECURSIVE SumLogins(_, _)
SumLogins(mappings, keys) ==
  IF keys = {} THEN 0
  ELSE LET k == CHOOSE x \in keys : TRUE
       IN  SumCounts(mappings[k]) + SumLogins(mappings, keys \ {k})

\* getStorageStats
getStorageStats(mappings) ==
  [totalDomains |-> Cardinality(DOMAIN mappings),
   totalEmails  |-> SumLengths(mappings, DOMAIN mappings),
   totalLogins  |-> SumLogins(mappings, DOMAIN mappings)]

----------------------------------------------------------------------------
(* Convex functions and the sync service.  A JavaScript object keeps its    *)
(* keys in insertion order; the model iterates over keys in the fixed order *)
(* DomainOrder, which no operation below can tell apart from it: the        *)
(* records of different domains never meet.                                 *)

DomainOrder == <<ExampleCom, WwwExampleCom>>

KeysInOrder(obj) == SelectSeq(DomainOrder, LAMBDA d : d \in DOMAIN obj)

Row(domain, entry, syncedAt) ==
  [domain |-> domain, email |-> entry.email, apiUrl |-> entry.apiUrl,
   timestamp |-> entry.timestamp, count |-> entry.count,
   description |-> entry.description, syncedAt |-> syncedAt]

RowEntry(row) ==
  [email |-> row.email, apiUrl |-> row.apiUrl, timestamp |-> row.timestamp,
   count |-> row.count, description |-> row.description]

RECURSIVE EntriesOf(_, _)
EntriesOf(rows, domain) ==
  IF rows = << >> THEN << >>
  ELSE IF Head(rows).domain = domain
       THEN <<RowEntry(Head(rows))>> \o EntriesOf(Tail(rows), domain)
       ELSE EntriesOf(Tail(rows), domain)

\* sync:getUserMappings
getUserMappings(rows) ==
  [d \in {rows[i].domain : i \in 1..Len(rows)} |-> EntriesOf(rows, d)]

RECURSIVE InsertRows(_, _, _)
InsertRows(mappings, keys, syncedAt) ==
  IF keys = << >> THEN << >>
  ELSE [i \in 1..Len(mappings[Head(keys)]) |->
          Row(Head(keys), mappings[Head(keys)][i], syncedAt)]
       \o InsertRows(mappings, Tail(keys), syncedAt)

\* sync:updateUserMappings: the table after the mutation
updateUserMappings(mappings, t) == InsertRows(mappings, KeysInOrder(mappings), t)

\* Faults of the merge loop the merge properties have to detect: LATEST_WINS
\* taking the local record on equal timestamps; a local-only email not
\* pushed; LOCAL_WINS comparing timestamps.
RECURSIVE MergeEmails_TieToLocal(_, _, _)
MergeEmails_TieToLocal(mergedList, localEmails, strategy) ==
  IF localEmails = << >> THEN mergedList
  ELSE
    LET localEmail == Head(localEmails)
        existingIndex == FindIndex(mergedList, localEmail.email)
        next ==
          IF existingIndex > 0
          THEN CASE strategy = "LOCAL_WINS" ->
                      [mergedList EXCEPT ![existingIndex] = localEmail]
                 [] strategy = "REMOTE_WINS" -> mergedList
                 [] OTHER ->
                      IF localEmail.timestamp >= mergedList[existingIndex].timestamp
                      THEN [mergedList EXCEPT ![existingIndex] = localEmail]
                      ELSE mergedList
          ELSE Append(mergedList, localEmail)
    IN  MergeEmails_TieToLocal(next, Tail(localEmails), strategy)

RECURSIVE MergeEmails_NoPush(_, _, _)
MergeEmails_NoPush(mergedList, localEmails, strategy) ==
  IF localEmails = << >> THEN mergedList
  ELSE
    LET localEmail == Head(localEmails)
        existingIndex == FindIndex(mergedList, localEmail.email)
        next ==
          IF existingIndex > 0
          THEN CASE strategy = "LOCAL_WINS" ->
                      [mergedList EXCEPT ![existingIndex] = localEmail]
                 [] strategy = "REMOTE_WINS" -> mergedList
                 [] OTHER ->
                      IF localEmail.timestamp > mergedList[existingIndex].timestamp
                      THEN [mergedList EXCEPT ![existingIndex] = localEmail]
                      ELSE mergedList
          ELSE mergedList
    IN  MergeEmails_NoPush(next, Tail(localEmails), strategy)

RECURSIVE MergeEmails_LocalByTime(_, _, _)
MergeEmails_LocalByTime(mergedList, localEmails, strategy) ==
  IF localEmails = << >> THEN mergedList
  ELSE
    LET localEmail == Head(localEmails)
        existingIndex == FindIndex(mergedList, localEmail.email)
        next ==
          IF existingIndex > 0
          THEN CASE strategy = "REMOTE_WINS" -> mergedList
                 [] OTHER ->
                      IF localEmail.timestamp > mergedList[existingIndex].timestamp
                      THEN [mergedList EXCEPT ![existingIndex] = localEmail]
                      ELSE mergedList
          ELSE Append(mergedList, localEmail)
    IN  MergeEmails_LocalByTime(next, Tail(localEmails), strategy)

RECURSIVE MergeEmails(_, _, _)
MergeEmails(mergedList, localEmails, strategy) ==
  IF localEmails = << >> THEN mergedList
  ELSE
    LET localEmail == Head(localEmails)
        existingIndex == FindIndex(mergedList, localEmail.email)
        next ==
          IF existingIndex > 0
          THEN CASE strategy = "LOCAL_WINS" ->
                      [mergedList EXCEPT ![existingIndex] = localEmail]
                 [] strategy = "REMOTE_WINS" -> mergedList
                 [] OTHER ->
                      IF localEmail.timestamp > mergedList[existingIndex].timestamp
                      THEN [mergedList EXCEPT ![existingIndex] = localEmail]
                      ELSE mergedList
          ELSE Append(mergedList, localEmail)
    IN  MergeEmails(next, Tail(localEmails), strategy)

\* SyncService.smartMerge
smartMerge(localData, remoteData, strategy) ==
  [d \in (DOMAIN remoteData) \cup (DOMAIN localData) |->
     IF d \in DOMAIN localData
     THEN MergeEmails(ListOf(remoteData, d), localData[d], strategy)
     ELSE remoteData[d]]

RECURSIVE SaveAll(_, _, _, _)
SaveAll(mappings, domain, emails, t) ==
  IF emails = << >> THEN mappings
  ELSE SaveAll(saveEmailMapping(mappings, domain, Head(emails).email,
                                Head(emails).apiUrl, t),
               domain, Tail(emails), t)

RECURSIVE SaveDomains(_, _, _, _)
SaveDomains(mappings, mergedData, keys, t) ==
  IF keys = << >> THEN mappings
  ELSE SaveDomains(SaveAll(mappings, Head(keys), mergedData[Head(keys)], t),
                   mergedData, Tail(keys), t)

\* SyncService.updateLocalStorage: the store after the clear and the saves
updateLocalStorage(mergedData, t) ==
  SaveDomains(EmptyObject, mergedData, KeysInOrder(mergedData), t)

----------------------------------------------------------------------------
(* Initial states: the store as chrome.runtime.onInstalled leaves it, or as *)
(* k logins with k different emails on example.com leave it (the i-th email *)
(* of EmailPool recorded at time i), and a Convex table another device has  *)
(* written.                                                                 *)

Prefill(k) ==
  [i \in 1..k |-> Entry(EmailPool[k + 1 - i], PageUrl(ExampleCom, "/login"),
                        k + 1 - i, 1)]

FillLevels == {5, Len(EmailPool)}

InitStores ==
  {EmptyObject} \cup {[d \in {ExampleCom} |-> Prefill(k)] : k \in FillLevels}

RemoteEntry(email, timestamp, count) ==
  [email |-> email, apiUrl |-> PageUrl(ExampleCom, "/oauth/callback"),
   timestamp |-> timestamp, count |-> count, description |-> Undefined]

InitRemotes ==
  { << >>,
    << Row(ExampleCom, RemoteEntry("u02@x.com", 1, 4), 0),
       Row(ExampleCom, RemoteEntry("u01@x.com", 1, 3), 0),
       Row(WwwExampleCom, RemoteEntry("new@x.com", 4, 2), 0) >>,
    << Row(ExampleCom, RemoteEntry("new@x.com", 7, 2), 0),
       Row(ExampleCom, RemoteEntry("u02@x.com", 8, 5), 0) >> }

NoOp == Reply("none", NoDomain, Undefined, Undefined, Undefined)

Init ==
  /\ store \in InitStores
  /\ settings = [isPaused |-> FALSE, disabledSites |-> << >>]
  /\ remoteRows \in InitRemotes
  /\ convex = FALSE
  /\ now = Len(EmailPool)
  /\ steps = 0
  /\ merged = EmptyObject
  /\ last = NoOp
  /\ pending = << >>
  /\ search = NoSearch

----------------------------------------------------------------------------
(* Operations.  Each is a whole handler: the read of the store, the change *)
(* and the write.  Operations are at least a millisecond apart: an         *)
(* operation that reads the clock gets DateNow, one more than the last     *)
(* value read.                                                             *)

DateNow == now + 1

\* chrome.webRequest.onCompleted listener -> analyzeOAuthUrlForEmail ->
\* storeEmailMapping.  urlEmail is the first email-shaped parameter value of
\* details.url (Undefined when there is none), tabHost the hostname of the
\* active tab (NoDomain when there is no tab).
WebRequestCompleted(reqHost, path, statusCode, urlEmail, tabHost) ==
  /\ steps < MaxSteps
  /\ steps' = steps + 1
  /\ LET url == PageUrl(reqHost, path)
         stores == /\ isOAuthUrl(url) /\ statusCode = 200
                   /\ ~settings.isPaused
                   /\ isValidEmail(urlEmail)
                   /\ tabHost # NoDomain
         rootDomain == getRootDomain(tabHost)
     IN  IF stores
         THEN /\ now' = DateNow
              /\ store' = storeEmailMapping(store, rootDomain, urlEmail, url, DateNow)
              /\ last' = Found(WithUrl(Reply("storeEmailMapping", rootDomain,
                                             urlEmail, Undefined, Undefined), url),
                               ListOf(store, rootDomain))
         ELSE /\ now' = now
              /\ store' = store
              /\ last' = Reply("webRequest", NoDomain, Undefined,
                               Undefined, Undefined)
  /\ UNCHANGED <<pending, search, settings, remoteRows, convex, merged>>

\* Content script: handleFormSubmission (method 'manual', the email input's
\* value as it is) or attemptToExtractEmailFromPage after an OAuth redirect
\* or a visibility change (method 'oauth'), then the background's
\* LOGIN_DETECTED handler.  setOk: chrome.storage.local.set left no lastError.
LOGIN_DETECTED(website, email, path, method, setOk) ==
  /\ steps < MaxSteps
  /\ steps' = steps + 1
  /\ method = "oauth" => isValidEmail(email)
  /\ LET timestamp == DateNow
         url == PageUrl(website, path)
     IN  /\ now' = timestamp
         /\ IF setOk
            THEN /\ store' = LoginDetected(store, website, email, timestamp, url)
                 /\ last' = Found(WithUrl(Reply("LOGIN_DETECTED", website, email,
                                                "true", Undefined), url),
                                  ListOf(store, website))
            ELSE /\ store' = store
                 /\ last' = Found(WithUrl(Reply("LOGIN_DETECTED", website, email,
                                                "false", "lastError.message"), url),
                                  ListOf(store, website))
  /\ UNCHANGED <<pending, search, settings, remoteRows, convex, merged>>

\* ADD_EMAIL writing the record also when the email is already in the list:
\* a fault the property of the failure replies has to detect.
ADD_EMAIL_WritesDuplicate(domain, email) ==
  /\ steps < MaxSteps
  /\ steps' = steps + 1
  /\ now' = DateNow
  /\ store' = AddEmail(store, domain, email, DateNow)
  /\ last' = IF FindIndex(ListOf(store, domain), email) = 0
             THEN Reply("ADD_EMAIL", domain, email, "true", Undefined)
             ELSE Reply("ADD_EMAIL", domain, email, "false",
                        "Email already exists for this domain")
  /\ UNCHANGED <<pending, search, settings, remoteRows, convex, merged>>

ADD_EMAIL(domain, email) ==
  /\ steps < MaxSteps
  /\ steps' = steps + 1
  /\ IF FindIndex(ListOf(store, domain), email) = 0
     THEN /\ now' = DateNow
          /\ store' = AddEmail(store, domain, email, DateNow)
          /\ last' = Reply("ADD_EMAIL", domain, email, "true", Undefined)
     ELSE /\ now' = now
          /\ store' = store
          /\ last' = Reply("ADD_EMAIL", domain, email, "false",
                           "Email already exists for this domain")
  /\ UNCHANGED <<pending, search, settings, remoteRows, convex, merged>>

DELETE_EMAIL(domain, email) ==
  /\ steps < MaxSteps
  /\ steps' = steps + 1
  /\ IF domain \in DOMAIN store
     THEN /\ store' = DeleteEmail(store, domain, email)
          /\ last' = Reply("DELETE_EMAIL", domain, email, "true", Undefined)
     ELSE /\ store' = store
          /\ last' = Reply("DELETE_EMAIL", domain, email, "false", "Domain not found")
  /\ UNCHANGED <<pending, search, settings, remoteRows, convex, now, merged>>

DELETE_DOMAIN(domain) ==
  /\ steps < MaxSteps
  /\ steps' = steps + 1
  /\ IF domain \in DOMAIN store
     THEN /\ store' = DeleteDomain(store, domain)
          /\ last' = Reply("DELETE_DOMAIN", domain, Undefined, "true", Undefined)
     ELSE /\ store' = store
          /\ last' = Reply("DELETE_DOMAIN", domain, Undefined, "false",
                           "Domain not found")
  /\ UNCHANGED <<pending, search, settings, remoteRows, convex, now, merged>>

EDIT_DOMAIN(oldDomain, newDomain) ==
  /\ steps < MaxSteps
  /\ steps' = steps + 1
  /\ IF oldDomain \in DOMAIN store
     THEN /\ store' = EditDomain(store, oldDomain, newDomain)
          /\ last' = Reply("EDIT_DOMAIN", oldDomain, Undefined, "true", Undefined)
     ELSE /\ store' = store
          /\ last' = Reply("EDIT_DOMAIN", oldDomain, Undefined, "false",
                           "Domain not found")
  /\ UNCHANGED <<pending, search, settings, remoteRows, convex, now, merged>>

EDIT_EMAIL(domain, oldEmail, newEmail, description) ==
  /\ steps < MaxSteps
  /\ steps' = steps + 1
  /\ IF domain \in DOMAIN store
     THEN LET emailIndex == FindIndex(store[domain], oldEmail)
          IN  IF emailIndex > 0
              THEN /\ now' = DateNow
                   /\ store' = EditEmail(store, domain, emailIndex, newEmail,
                                         description, DateNow)
                   /\ last' = [Reply("EDIT_EMAIL", domain, oldEmail, "true", Undefined)
                                 EXCEPT !.newEmail = newEmail]
              ELSE /\ now' = now
                   /\ store' = store
                   /\ last' = [Reply("EDIT_EMAIL", domain, oldEmail, "false",
                                     "Email not found")
                                 EXCEPT !.newEmail = newEmail]
     ELSE /\ now' = now
          /\ store' = store
          /\ last' = [Reply("EDIT_EMAIL", domain, oldEmail, "false",
                            "Domain not found")
                        EXCEPT !.newEmail = newEmail]
  /\ UNCHANGED <<pending, search, settings, remoteRows, convex, merged>>

CLEAR_MAPPINGS ==
  /\ steps < MaxSteps
  /\ steps' = steps + 1
  /\ store' = EmptyObject
  /\ last' = Reply("CLEAR_MAPPINGS", NoDomain, Undefined, "true", Undefined)
  /\ UNCHANGED <<pending, search, settings, remoteRows, convex, now, merged>>

\* The handlers that only read: GET_EMAIL_MAPPINGS replies {mappings},
\* CHECK_NEW_ACCOUNT {isNew}, GET_TRACKING_STATUS {isPaused}.
ReadOnly(type) ==
  /\ steps < MaxSteps
  /\ steps' = steps + 1
  /\ last' = Reply(type, NoDomain, Undefined, Undefined, Undefined)
  /\ UNCHANGED <<pending, search, store, settings, remoteRows, convex, now, merged>>

TOGGLE_TRACKING ==
  /\ steps < MaxSteps
  /\ steps' = steps + 1
  /\ settings' = [settings EXCEPT !.isPaused = ~settings.isPaused]
  /\ last' = Reply("TOGGLE_TRACKING", NoDomain, Undefined, "true", Undefined)
  /\ UNCHANGED <<pending, search, store, remoteRows, convex, now, merged>>

\* The chrome.storage.local call that fails during a saveEmailMapping: the
\* get of getEmailMappings, the set, or both.
SaveFaults == {"none", "get", "set", "both"}

\* getEmailMappings: a failed get is caught and the empty object returned
getEmailMappings(stored, getOk) == IF getOk THEN stored ELSE EmptyObject

\* A call of the storage utility saveEmailMapping with a failing storage
\* call: the value it returns is the success of the reply.
SaveEmailMappingFailing(domain, email, path, fault) ==
  /\ steps < MaxSteps
  /\ steps' = steps + 1
  /\ now' = DateNow
  /\ LET mappings == getEmailMappings(store, fault \notin {"get", "both"})
         setOk == fault \notin {"set", "both"}
     IN  /\ store' = IF setOk
                     THEN saveEmailMapping(mappings, domain, email,
                                           PageUrl(domain, path), DateNow)
                     ELSE store
         /\ last' = [Found(WithUrl(Reply("saveEmailMapping", domain, email,
                                         IF setOk THEN "true" ELSE "false",
                                         Undefined),
                                   PageUrl(domain, path)),
                           ListOf(mappings, domain))
                       EXCEPT !.fault = fault]
  /\ UNCHANGED <<pending, search, settings, remoteRows, convex, merged>>

\* A call of the storage utility saveEmailMapping
SaveEmailMapping(domain, email, path) ==
  /\ steps < MaxSteps
  /\ steps' = steps + 1
  /\ now' = DateNow
  /\ store' = saveEmailMapping(store, domain, email, PageUrl(domain, path), DateNow)
  /\ last' = Found(WithUrl(Reply("saveEmailMapping", domain, email, "true",
                                 Undefined),
                           PageUrl(domain, path)),
                   ListOf(store, domain))
  /\ UNCHANGED <<pending, search, settings, remoteRows, convex, merged>>

\* SyncService.initializeConvex, started by the constructor, completes
InitializeConvex ==
  /\ ~convex
  /\ convex' = TRUE
  /\ UNCHANGED <<pending, search, store, settings, remoteRows, now, steps, merged, last>>

\* The call that fails during a sync: the Convex query, the Convex mutation,
\* the chrome.storage.local.set that clears the store, or every
\* chrome.storage.local.set of saveEmailMapping (the store takes the empty
\* object and no larger value).
SyncFaults == {"none", "query", "mutation", "clear", "save"}

\* The value syncWithConvex resolves to: the promise of updateLocalStorage
\* rejects when the clearing set rejects (saveEmailMapping catches its own
\* errors and its result is dropped), the promise of updateConvexStorage
\* when the mutation rejects; the catch block turns any rejection into
\* {success: false, error}.
SyncResult(fault) ==
  IF fault \in {"query", "mutation", "clear"}
  THEN [success |-> "false", error |-> "error.message"]
  ELSE [success |-> "true", error |-> Undefined]

\* SyncService.syncWithConvex with nothing else interleaved, when all its
\* promises have settled: Promise.all starts both updates, and one that
\* rejects does not stop the other.
SyncWithConvex(strategy, fault) ==
  /\ steps < MaxSteps
  /\ steps' = steps + 1
  /\ IF ~convex
     THEN /\ fault = "none"
          /\ UNCHANGED <<store, remoteRows, now, merged>>
          /\ last' = [Reply("syncWithConvex", NoDomain, Undefined, "false",
                            "Convex not initialized")
                        EXCEPT !.strategy = strategy]
     ELSE LET localData == store
              remoteData == getUserMappings(remoteRows)
              result == smartMerge(localData, remoteData, strategy)
          IN  /\ fault = "save" => DOMAIN result # {}
              /\ now' = DateNow
              /\ merged' = IF fault = "query" THEN merged ELSE result
              /\ store' = CASE fault \in {"query", "clear"} -> store
                             [] fault = "save" -> EmptyObject
                             [] OTHER -> updateLocalStorage(result, DateNow)
              /\ remoteRows' = IF fault \in {"query", "mutation"} THEN remoteRows
                               ELSE updateUserMappings(result, DateNow)
              /\ last' = [Reply("syncWithConvex", NoDomain, Undefined,
                                SyncResult(fault).success, SyncResult(fault).error)
                            EXCEPT !.strategy = strategy, !.fault = fault]
  /\ UNCHANGED <<pending, search, settings, convex>>

StatusCodes == {200, 302}

Next ==
  \/ \E reqHost \in {ExampleCom}, path \in RequestPaths, statusCode \in StatusCodes,
        urlEmail \in InputEmails \cup {Undefined, "noreply@x.com"},
        tabHost \in Hosts \cup {NoDomain} :
       WebRequestCompleted(reqHost, path, statusCode, urlEmail, tabHost)
  \/ \E website \in Hosts, email \in InputEmails, path \in Paths,
        method \in {"manual", "oauth"}, setOk \in BOOLEAN :
       LOGIN_DETECTED(website, email, path, method, setOk)
  \/ \E domain \in Hosts, email \in InputEmails :
       ADD_EMAIL(domain, email)
  \/ \E domain \in Hosts, email \in InputEmails : DELETE_EMAIL(domain, email)
  \/ \E domain \in Hosts : DELETE_DOMAIN(domain)
  \/ \E oldDomain \in Hosts, newDomain \in Hosts : EDIT_DOMAIN(oldDomain, newDomain)
  \/ \E domain \in Hosts, oldEmail \in InputEmails \cup {""},
        newEmail \in InputEmails, description \in Descriptions :
       EDIT_EMAIL(domain, oldEmail, newEmail, description)
  \/ CLEAR_MAPPINGS
  \/ \E type \in {"GET_EMAIL_MAPPINGS", "CHECK_NEW_ACCOUNT", "GET_TRACKING_STATUS"} :
       ReadOnly(type)
  \/ TOGGLE_TRACKING
  \/ \E domain \in Hosts, email \in InputEmails, path \in Paths :
       SaveEmailMapping(domain, email, path)
  \/ InitializeConvex
  \/ \E strategy \in Strategies, fault \in SyncFaults :
       SyncWithConvex(strategy, fault)

Spec == Init /\ [][Next]_vars

----------------------------------------------------------------------------
(* The extraction events alone, with every text a page can hand over: a     *)
(* login form's email input holds whatever the user typed, here also        *)
(* "noreply@x.com", which both validators reject.                           *)

FormEmails == InputEmails \cup {"noreply@x.com"}

NextExtract ==
  \/ \E reqHost \in {ExampleCom}, path \in RequestPaths, statusCode \in StatusCodes,
        urlEmail \in FormEmails \cup {Undefined}, tabHost \in Hosts \cup {NoDomain} :
       WebRequestCompleted(reqHost, path, statusCode, urlEmail, tabHost)
  \/ \E website \in Hosts, email \in FormEmails, path \in Paths,
        method \in {"manual", "oauth"}, setOk \in BOOLEAN :
       LOGIN_DETECTED(website, email, path, method, setOk)

SpecExtract == Init /\ [][NextExtract]_vars

----------------------------------------------------------------------------
(* The storage utility with failing storage calls *)

NextStorage ==
  \E domain \in Hosts, email \in InputEmails, path \in Paths, fault \in SaveFaults :
    SaveEmailMappingFailing(domain, email, path, fault)

SpecStorage == Init /\ [][NextStorage]_vars

----------------------------------------------------------------------------
(* The popup's forms.  The edit form is opened by the edit button of a      *)
(* stored record (domain, currentEmail) and shows that email; the user      *)
(* replaces it with what they type.                                         *)

PopupInputs == InputEmails \cup {"jane"}

\* isValidEmail of the popup, /^[^\s@]+@[^\s@]+\.[^\s@]+$/, on the texts of
\* PopupInputs: all but "jane" have the form x@y.z.
popupIsValidEmail(email) == email # "jane"

\* handleEditEmail: the form of the record (domain, currentEmail) is
\* submitted with newEmail in its email field; the message carries the
\* domain, newEmail and oldEmail: ''.
HandleEditEmail(domain, currentEmail, newEmail) ==
  /\ FindIndex(ListOf(store, domain), currentEmail) > 0
  /\ popupIsValidEmail(newEmail)
  /\ EDIT_EMAIL(domain, "", newEmail, Undefined)

\* handleAddEmail
HandleAddEmail(domain, email) ==
  /\ popupIsValidEmail(email)
  /\ ADD_EMAIL(domain, email)

NextPopup ==
  \/ \E domain \in Hosts, currentEmail \in InputEmails, newEmail \in PopupInputs :
       HandleEditEmail(domain, currentEmail, newEmail)
  \/ \E domain \in Hosts, email \in PopupInputs : HandleAddEmail(domain, email)

SpecPopup == Init /\ [][NextPopup]_vars

----------------------------------------------------------------------------
(* The merge as a function of its inputs: every pair of a local store and a *)
(* remote table over two emails and two timestamps, lists of up to          *)
(* MaxMergeLen records.  A local list may hold an email twice, as           *)
(* EDIT_EMAIL can leave it; a list of the remote table never does, since    *)
(* the table only ever holds a smartMerge result.  A local record has       *)
(* count 1 and a remote record count 2, so that the side a merged record    *)
(* came from shows.                                                         *)

MaxMergeLen == 2

MergeEmailSet == {"a@x.com", "b@x.com"}

MergeTimes == {1, 2}

LocalEntries ==
  {Entry(e, PageUrl(ExampleCom, "/login"), t, 1) : e \in MergeEmailSet, t \in MergeTimes}

RemoteEntries == {RemoteEntry(e, t, 2) : e \in MergeEmailSet, t \in MergeTimes}

ListsUpTo(S, n) == UNION {[1..k -> S] : k \in 0..n}

NoEmailTwice(list) ==
  \A i, j \in 1..Len(list) : i # j => list[i].email # list[j].email

MergeStores(lists, entries) ==
  { LET first == IF list = << >> THEN EmptyObject
                 ELSE [d \in {ExampleCom} |-> list]
    IN  IF other THEN SetKey(first, WwwExampleCom,
                             <<CHOOSE x \in entries : x.email = "a@x.com" /\ x.timestamp = 1>>)
        ELSE first
    : list \in lists, other \in BOOLEAN }

MergeLocals == MergeStores(ListsUpTo(LocalEntries, MaxMergeLen), LocalEntries)

MergeRemotes ==
  MergeStores({list \in ListsUpTo(RemoteEntries, MaxMergeLen) : NoEmailTwice(list)},
              RemoteEntries)

InitMerge ==
  /\ store \in MergeLocals
  /\ remoteRows \in {updateUserMappings(m, 0) : m \in MergeRemotes}
  /\ settings = [isPaused |-> FALSE, disabledSites |-> << >>]
  /\ convex = TRUE
  /\ now = 2
  /\ steps = 0
  /\ merged = EmptyObject
  /\ last = NoOp
  /\ pending = << >>
  /\ search = NoSearch

\* sync:mergeMappings (the Convex mutation): latest timestamp wins
RECURSIVE MergeEmailsLatest(_, _)
MergeEmailsLatest(mergedList, localEmails) ==
  IF localEmails = << >> THEN mergedList
  ELSE
    LET localEmail == Head(localEmails)
        existingIndex == FindIndex(mergedList, localEmail.email)
        next ==
          IF existingIndex > 0
          THEN IF localEmail.timestamp > mergedList[existingIndex].timestamp
               THEN [mergedList EXCEPT ![existingIndex] = localEmail]
               ELSE mergedList
          ELSE Append(mergedList, localEmail)
    IN  MergeEmailsLatest(next, Tail(localEmails))

mergeMappings(localMappings, remoteMappings) ==
  [d \in (DOMAIN remoteMappings) \cup (DOMAIN localMappings) |->
     IF d \in DOMAIN localMappings
     THEN MergeEmailsLatest(ListOf(remoteMappings, d), localMappings[d])
     ELSE remoteMappings[d]]

SmartMerge(strategy) ==
  /\ last.op = "none"
  /\ merged' = smartMerge(store, getUserMappings(remoteRows), strategy)
  /\ last' = [Reply("smartMerge", NoDomain, Undefined, Undefined, Undefined)
                EXCEPT !.strategy = strategy]
  /\ UNCHANGED <<pending, search, store, settings, remoteRows, convex, now, steps>>

MergeMappings ==
  /\ last.op = "none"
  /\ merged' = mergeMappings(store, getUserMappings(remoteRows))
  /\ last' = Reply("mergeMappings", NoDomain, Undefined, Undefined, Undefined)
  /\ UNCHANGED <<pending, search, store, settings, remoteRows, convex, now, steps>>

NextMerge ==
  \/ \E strategy \in Strategies : SmartMerge(strategy)
  \/ MergeMappings

SpecMerge == InitMerge /\ [][NextMerge]_vars

----------------------------------------------------------------------------
(* Interleaved upserts.  A handler is not atomic: chrome.storage.local.get  *)
(* hands the stored value to its callback, which changes its own copy and   *)
(* calls chrome.storage.local.set; other handlers run between the two.      *)
(* pending[h] is handler h: where it is, the value it read (result), the    *)
(* value it hands to set (mappings), when it read and wrote (values of       *)
(* steps), and its reply.                                                   *)

MaxHandlers == 2

Handlers == 1..MaxHandlers

Idle ==
  [pc |-> "idle", type |-> Undefined, domain |-> NoDomain, email |-> Undefined,
   result |-> EmptyObject, mappings |-> EmptyObject, readAt |-> 0, wroteAt |-> 0,
   reply |-> Undefined]

InitRace ==
  /\ store \in {EmptyObject, [d \in {ExampleCom} |-> Prefill(5)]}
  /\ settings = [isPaused |-> FALSE, disabledSites |-> << >>]
  /\ remoteRows = << >>
  /\ convex = FALSE
  /\ now = Len(EmailPool)
  /\ steps = 0
  /\ merged = EmptyObject
  /\ last = NoOp
  /\ pending = [h \in Handlers |-> Idle]
  /\ search = NoSearch

\* chrome.storage.local.set({emailMappings: mappings}) with a merging write
\* in its place: records of the stored value whose email the new value lacks
\* are kept.  A fault the lost-update property has to detect.
StorageSet_Merging(current, mappings) ==
  [d \in (DOMAIN current) \cup (DOMAIN mappings) |->
     ListOf(mappings, d)
     \o SelectSeq(ListOf(current, d),
                  LAMBDA r : r.email \notin {ListOf(mappings, d)[i].email :
                                               i \in 1..Len(ListOf(mappings, d))})]

\* chrome.storage.local.set({emailMappings: mappings}): the value stored
\* under the key is replaced as a whole.
StorageSet(current, mappings) == mappings

\* The handler of LOGIN_DETECTED, or storeEmailMapping, up to its call of
\* chrome.storage.local.set: it has read the store and changed its copy.
\* storeEmailMapping ends here when it found the email (it calls no set).
HandlerReads(h, type, host, email) ==
  /\ pending[h].pc = "idle"
  /\ steps' = steps + 1
  /\ now' = DateNow
  /\ LET domain == IF type = "storeEmailMapping" THEN getRootDomain(host) ELSE host
         url == PageUrl(host, "/oauth/callback")
         mappings == IF type = "storeEmailMapping"
                     THEN storeEmailMapping(store, domain, email, url, DateNow)
                     ELSE LoginDetected(store, domain, email, DateNow, url)
         sets == type = "LOGIN_DETECTED"
                 \/ FindIndex(ListOf(store, domain), email) = 0
     IN  /\ pending' = [pending EXCEPT ![h] =
                          [pc |-> IF sets THEN "read" ELSE "done",
                           type |-> type, domain |-> domain, email |-> email,
                           result |-> store, mappings |-> mappings,
                           readAt |-> steps + 1, wroteAt |-> 0,
                           reply |-> Undefined]]
         /\ last' = Found(WithUrl(Reply(type, domain, email, Undefined, Undefined),
                                  url),
                          ListOf(store, domain))
  /\ UNCHANGED <<search, store, settings, remoteRows, convex, merged>>

\* chrome.storage.local.set takes the handler's value and its callback
\* replies (LOGIN_DETECTED) or the await returns (storeEmailMapping).
\* setOk: the write left no lastError / did not reject.
HandlerWrites(h, setOk) ==
  /\ pending[h].pc = "read"
  /\ steps' = steps + 1
  /\ store' = IF setOk THEN StorageSet(store, pending[h].mappings) ELSE store
  /\ LET success == IF pending[h].type = "storeEmailMapping" THEN Undefined
                    ELSE IF setOk THEN "true" ELSE "false"
         error == IF success = "false" THEN "lastError.message" ELSE Undefined
     IN  /\ pending' = [pending EXCEPT ![h].pc = "done",
                                       ![h].wroteAt = IF setOk THEN steps + 1 ELSE 0,
                                       ![h].reply = success]
         /\ last' = Reply(pending[h].type, pending[h].domain, pending[h].email,
                          success, error)
  /\ UNCHANGED <<search, settings, remoteRows, convex, now, merged>>

NextRace ==
  \/ \E h \in Handlers, type \in {"LOGIN_DETECTED", "storeEmailMapping"},
        host \in Hosts, email \in InputEmails :
       HandlerReads(h, type, host, email)
  \/ \E h \in Handlers, setOk \in BOOLEAN : HandlerWrites(h, setOk)

SpecRace == InitRace /\ [][NextRace]_vars

----------------------------------------------------------------------------
(* A sync interleaved with login handlers.  syncWithConvex reads the store  *)
(* and the table and merges them; updateLocalStorage then clears the store  *)
(* and awaits one saveEmailMapping per merged record, each of them a read   *)
(* of the store (getEmailMappings) and a later set of the changed copy.     *)
(* LOGIN_DETECTED handlers run between any two of these steps.  pending[0]  *)
(* is the sync: where it is, the records still to save (queue), the value   *)
(* the running saveEmailMapping hands to set (mappings), and when the store *)
(* was cleared and when the last save returned (values of steps).           *)

SyncTask == 0

\* The login handlers that run while the sync does.
Logins == {1}

SyncIdle ==
  [pc |-> "idle", type |-> "syncWithConvex", queue |-> << >>,
   mappings |-> EmptyObject, clearedAt |-> 0, savedAt |-> 0]

\* The calls of saveEmailMapping the two loops of updateLocalStorage make,
\* in order.
RECURSIVE SaveQueue(_, _)
SaveQueue(mergedData, keys) ==
  IF keys = << >> THEN << >>
  ELSE [i \in 1..Len(mergedData[Head(keys)]) |->
          [domain |-> Head(keys), email |-> mergedData[Head(keys)][i].email,
           apiUrl |-> mergedData[Head(keys)][i].apiUrl]]
       \o SaveQueue(mergedData, Tail(keys))

InitWriteBack ==
  /\ store \in {EmptyObject, [d \in {ExampleCom} |-> Prefill(2)]}
  /\ settings = [isPaused |-> FALSE, disabledSites |-> << >>]
  /\ remoteRows \in InitRemotes
  /\ convex = TRUE
  /\ now = Len(EmailPool)
  /\ steps = 0
  /\ merged = EmptyObject
  /\ last = NoOp
  /\ pending = [h \in {SyncTask} \cup Logins |->
                  IF h = SyncTask THEN SyncIdle ELSE Idle]
  /\ search = NoSearch

\* syncWithConvex up to its call of updateLocalStorage: local and remote
\* data are read and merged.
SyncMerges(strategy) ==
  /\ pending[SyncTask].pc = "idle"
  /\ steps' = steps + 1
  /\ merged' = smartMerge(store, getUserMappings(remoteRows), strategy)
  /\ pending' = [pending EXCEPT ![SyncTask].pc = "merged"]
  /\ last' = [Reply("syncWithConvex", NoDomain, Undefined, Undefined, Undefined)
                EXCEPT !.strategy = strategy]
  /\ UNCHANGED <<search, store, settings, remoteRows, convex, now>>

\* updateLocalStorage: chrome.storage.local.set({emailMappings: {}}).
\* clearOk: the set did not reject; when it rejects updateLocalStorage
\* rethrows and saves nothing.
WriteBackClears(clearOk) ==
  /\ pending[SyncTask].pc = "merged"
  /\ steps' = steps + 1
  /\ store' = IF clearOk THEN StorageSet(store, EmptyObject) ELSE store
  /\ LET queue == SaveQueue(merged, KeysInOrder(merged))
     IN  pending' = [pending EXCEPT
                       ![SyncTask].pc = IF ~clearOk THEN "failed"
                                        ELSE IF queue = << >> THEN "saved"
                                        ELSE "saving",
                       ![SyncTask].queue = IF clearOk THEN queue ELSE << >>,
                       ![SyncTask].clearedAt = IF clearOk THEN steps + 1 ELSE 0,
                       ![SyncTask].savedAt =
                          IF clearOk /\ queue = << >> THEN steps + 1 ELSE 0]
  /\ UNCHANGED <<search, settings, remoteRows, convex, now, merged, last>>

\* saveEmailMapping of the next merged record up to its call of
\* chrome.storage.local.set: it has read the store and changed its copy.
SaveReads ==
  /\ pending[SyncTask].pc = "saving"
  /\ steps' = steps + 1
  /\ now' = DateNow
  /\ LET next == Head(pending[SyncTask].queue)
     IN  pending' = [pending EXCEPT
                       ![SyncTask].pc = "read",
                       ![SyncTask].mappings =
                          saveEmailMapping(store, next.domain, next.email,
                                           next.apiUrl, DateNow)]
  /\ UNCHANGED <<search, store, settings, remoteRows, convex, merged, last>>

\* The set of that saveEmailMapping; its result (true, or false when the set
\* rejected) is dropped and the loop goes on.
SaveWrites(setOk) ==
  /\ pending[SyncTask].pc = "read"
  /\ steps' = steps + 1
  /\ store' = IF setOk THEN StorageSet(store, pending[SyncTask].mappings)
              ELSE store
  /\ LET rest == Tail(pending[SyncTask].queue)
     IN  pending' = [pending EXCEPT
                       ![SyncTask].pc = IF rest = << >> THEN "saved" ELSE "saving",
                       ![SyncTask].queue = rest,
                       ![SyncTask].savedAt = IF rest = << >> THEN steps + 1 ELSE 0]
  /\ UNCHANGED <<search, settings, remoteRows, convex, now, merged, last>>

\* Promise.all has settled: updateConvexStorage has replaced the rows of the
\* table and syncWithConvex resolves.
SyncReturns ==
  /\ pending[SyncTask].pc \in {"saved", "failed"}
  /\ steps' = steps + 1
  /\ now' = DateNow
  /\ remoteRows' = updateUserMappings(merged, DateNow)
  /\ pending' = [pending EXCEPT ![SyncTask].pc = "done"]
  /\ LET fault == IF pending[SyncTask].pc = "failed" THEN "clear" ELSE "none"
     IN  last' = [Reply("syncWithConvex", NoDomain, Undefined,
                        SyncResult(fault).success, SyncResult(fault).error)
                    EXCEPT !.fault = fault]
  /\ UNCHANGED <<search, store, settings, convex, merged>>

NextWriteBack ==
  \/ \E strategy \in Strategies : SyncMerges(strategy)
  \/ \E clearOk \in BOOLEAN : WriteBackClears(clearOk)
  \/ SaveReads
  \/ \E setOk \in BOOLEAN : SaveWrites(setOk)
  \/ SyncReturns
  \/ \E h \in Logins, host \in Hosts, email \in InputEmails :
       HandlerReads(h, "LOGIN_DETECTED", host, email)
  \/ \E h \in Logins, setOk \in BOOLEAN : HandlerWrites(h, setOk)

SpecWriteBack == InitWriteBack /\ [][NextWriteBack]_vars

----------------------------------------------------------------------------
(* The listener of chrome.runtime.onMessage, call by call.  The listener    *)
(* starts a storage call and returns true (the channel stays open) or, for  *)
(* a type it has no branch for, returns false; the callback of get runs     *)
(* later and replies or calls set; the callback of set replies.  pending[c] *)
(* is the channel of one message: where its handler is, the message, the    *)
(* value handed to set (mappings), the number of sendResponse calls so far  *)
(* (replies) and the success field of the reply.                            *)

\* The values of message.type the listener has a branch for.
MessageTypes ==
  {"GET_EMAIL_MAPPINGS", "CLEAR_MAPPINGS", "LOGIN_DETECTED", "ADD_EMAIL",
   "DELETE_EMAIL", "DELETE_DOMAIN", "EDIT_DOMAIN", "EDIT_EMAIL",
   "CHECK_NEW_ACCOUNT", "GET_TRACKING_STATUS", "TOGGLE_TRACKING"}

Channels == {1, 2}

UnknownType == "PING"

ListenerMessages ==
  {[type |-> t, domain |-> NoDomain, email |-> Undefined, newName |-> Undefined] :
     t \in {"GET_EMAIL_MAPPINGS", "CLEAR_MAPPINGS", "GET_TRACKING_STATUS",
            "TOGGLE_TRACKING", UnknownType}}
  \cup {[type |-> "DELETE_DOMAIN", domain |-> d, email |-> Undefined,
         newName |-> Undefined] : d \in Hosts}
  \cup {[type |-> "EDIT_DOMAIN", domain |-> d, email |-> Undefined,
         newName |-> WwwExampleCom] : d \in Hosts}
  \cup {[type |-> t, domain |-> d, email |-> e, newName |-> Undefined] :
         t \in {"LOGIN_DETECTED", "ADD_EMAIL", "DELETE_EMAIL", "CHECK_NEW_ACCOUNT"},
         d \in Hosts, e \in {"u01@x.com", "new@x.com"}}
  \cup {[type |-> "EDIT_EMAIL", domain |-> d, email |-> e, newName |-> "u02@x.com"] :
         d \in Hosts, e \in {"u01@x.com", "new@x.com"}}

Closed ==
  [pc |-> "idle", type |-> Undefined, domain |-> NoDomain, email |-> Undefined,
   newName |-> Undefined, mappings |-> EmptyObject, replies |-> 0,
   reply |-> Undefined, error |-> Undefined]

InitListener ==
  /\ store = [d \in {ExampleCom} |-> Prefill(5)]
  /\ settings = [isPaused |-> FALSE, disabledSites |-> << >>]
  /\ remoteRows = << >>
  /\ convex = FALSE
  /\ now = Len(EmailPool)
  /\ steps = 0
  /\ merged = EmptyObject
  /\ last = NoOp
  /\ pending = [c \in Channels |-> Closed]
  /\ search = NoSearch

\* sendResponse dropping the reply when success is false: a fault the
\* property of the replies has to detect.
SendResponse_OnlyOnSuccess(channel, success, error) ==
  IF success = "false" THEN [channel EXCEPT !.pc = "done"]
  ELSE [channel EXCEPT !.pc = "done", !.replies = @ + 1,
                       !.reply = success, !.error = error]

\* sendResponse(...) on the channel
SendResponse(channel, success, error) ==
  [channel EXCEPT !.pc = "done", !.replies = @ + 1,
                  !.reply = success, !.error = error]

\* chrome.storage.local.set(...) called with a value: its callback is due
CallsSet(channel, value) ==
  [channel EXCEPT !.pc = "set", !.mappings = value]

\* The listener is called with a message: it starts the storage call of the
\* branch of message.type and returns true, or returns false.
ListenerReceives(c, message) ==
  /\ pending[c].pc = "idle"
  /\ LET channel == [pending[c] EXCEPT !.type = message.type,
                                       !.domain = message.domain,
                                       !.email = message.email,
                                       !.newName = message.newName]
     IN  pending' = [pending EXCEPT ![c] =
                       IF message.type \notin MessageTypes
                       THEN [channel EXCEPT !.pc = "closed"]
                       ELSE IF message.type = "CLEAR_MAPPINGS"
                       THEN CallsSet(channel, EmptyObject)
                       ELSE [channel EXCEPT !.pc = "get"]]
  /\ UNCHANGED <<search, store, settings, remoteRows, convex, now, steps,
                 merged, last>>

\* What the callback of chrome.storage.local.get does with the channel.
GetCallback(channel, t) ==
  LET type == channel.type
      domain == channel.domain
      email == channel.email
      found == domain \in DOMAIN store
      index == FindIndex(ListOf(store, domain), email)
  IN  CASE type \in {"GET_EMAIL_MAPPINGS", "CHECK_NEW_ACCOUNT",
                     "GET_TRACKING_STATUS"}
             -> SendResponse(channel, Undefined, Undefined)
        [] type = "LOGIN_DETECTED"
             -> CallsSet(channel,
                         LoginDetected(store, domain, email, t,
                                       PageUrl(domain, "/oauth/callback")))
        [] type = "ADD_EMAIL"
             -> IF index = 0
                THEN CallsSet(channel, AddEmail(store, domain, email, t))
                ELSE SendResponse(channel, "false",
                                  "Email already exists for this domain")
        [] type = "DELETE_EMAIL"
             -> IF found THEN CallsSet(channel, DeleteEmail(store, domain, email))
                ELSE SendResponse(channel, "false", "Domain not found")
        [] type = "DELETE_DOMAIN"
             -> IF found THEN CallsSet(channel, DeleteDomain(store, domain))
                ELSE SendResponse(channel, "false", "Domain not found")
        [] type = "EDIT_DOMAIN"
             -> IF found
                THEN CallsSet(channel, EditDomain(store, domain, channel.newName))
                ELSE SendResponse(channel, "false", "Domain not found")
        [] type = "EDIT_EMAIL"
             -> IF ~found THEN SendResponse(channel, "false", "Domain not found")
                ELSE IF index = 0
                THEN SendResponse(channel, "false", "Email not found")
                ELSE CallsSet(channel,
                              EditEmail(store, domain, index, channel.newName,
                                        Undefined, t))
        [] type = "TOGGLE_TRACKING"
             -> CallsSet(channel, [settings EXCEPT !.isPaused = ~settings.isPaused])

\* The callback of chrome.storage.local.get runs.
ListenerGetCallback(c) ==
  /\ pending[c].pc = "get"
  /\ now' = IF pending[c].type \in {"LOGIN_DETECTED", "ADD_EMAIL", "EDIT_EMAIL"}
            THEN DateNow ELSE now
  /\ pending' = [pending EXCEPT ![c] = GetCallback(pending[c], now')]
  /\ last' = IF pending'[c].pc = "done"
             THEN Reply(pending[c].type, pending[c].domain, pending[c].email,
                        pending'[c].reply, pending'[c].error)
             ELSE last
  /\ UNCHANGED <<search, store, settings, remoteRows, convex, steps, merged>>

\* chrome.storage.local.set takes the value and its callback runs.  setOk:
\* the write left no lastError; only the branch of LOGIN_DETECTED looks at
\* lastError.
ListenerSetCallback(c, setOk) ==
  /\ pending[c].pc = "set"
  /\ IF pending[c].type = "TOGGLE_TRACKING"
     THEN /\ settings' = IF setOk THEN pending[c].mappings ELSE settings
          /\ store' = store
     ELSE /\ store' = IF setOk THEN StorageSet(store, pending[c].mappings)
                      ELSE store
          /\ settings' = settings
  /\ LET failed == pending[c].type = "LOGIN_DETECTED" /\ ~setOk
         success == IF failed THEN "false" ELSE "true"
         error == IF failed THEN "lastError.message" ELSE Undefined
     IN  /\ pending' = [pending EXCEPT ![c] = SendResponse(pending[c], success, error)]
         /\ last' = Reply(pending[c].type, pending[c].domain, pending[c].email,
                          success, error)
  /\ UNCHANGED <<search, remoteRows, convex, now, steps, merged>>

Callbacks ==
  \/ \E c \in Channels : ListenerGetCallback(c)
  \/ \E c \in Channels, setOk \in BOOLEAN : ListenerSetCallback(c, setOk)

NextListener ==
  \/ \E c \in Channels, message \in ListenerMessages : ListenerReceives(c, message)
  \/ Callbacks

\* A callback that is due is run.
SpecListener == InitListener /\ [][NextListener]_vars /\ WF_vars(Callbacks)

----------------------------------------------------------------------------
(* The domain normalizer as a function of its input: every hostname of up   *)
(* to MaxLabels labels over Labels, and the empty string.  last.domain is   *)
(* the hostname given first and then the value getRootDomain returned for   *)
(* the value before.                                                        *)

MaxLabels == 4

Labels == {"www", "WWW", "example", "co", "uk", "com"}

Hostnames == {NoDomain} \cup UNION {[1..k -> Labels] : k \in 1..MaxLabels}

InitNormalize ==
  /\ store = EmptyObject
  /\ settings = [isPaused |-> FALSE, disabledSites |-> << >>]
  /\ remoteRows = << >>
  /\ convex = FALSE
  /\ now = 0
  /\ steps = 0
  /\ merged = EmptyObject
  /\ last \in {Reply("none", h, Undefined, Undefined, Undefined) : h \in Hostnames}
  /\ pending = << >>
  /\ search = NoSearch

\* A call getRootDomain(domain) on the hostname, or on the value the call
\* before returned.
GetRootDomain ==
  /\ steps < 2
  /\ steps' = steps + 1
  /\ last' = [Reply("getRootDomain", getRootDomain(last.domain), Undefined,
                    Undefined, Undefined)
                EXCEPT !.input = last.domain]
  /\ UNCHANGED <<pending, search, store, settings, remoteRows, convex, now, merged>>

\* The same with DomainUtils.getRootDomain of the Gmail extractor.
DomainUtilsGetRootDomainCall ==
  /\ steps < 2
  /\ steps' = steps + 1
  /\ last' = [Reply("DomainUtils.getRootDomain",
                    DomainUtilsGetRootDomain(last.domain), Undefined,
                    Undefined, Undefined)
                EXCEPT !.input = last.domain]
  /\ UNCHANGED <<pending, search, store, settings, remoteRows, convex, now, merged>>

NextNormalize ==
  \/ GetRootDomain
  \/ DomainUtilsGetRootDomainCall

SpecNormalize == InitNormalize /\ [][NextNormalize]_vars

----------------------------------------------------------------------------
(* The email validators as functions of their input.  A candidate is its    *)
(* local part, a sequence of up to MaxChunks pieces of text, and its        *)
(* domain; the string is the pieces, '@' and the domain in a row.  The      *)
(* pieces are chosen so that no pattern of the validators matches across    *)
(* the border of two pieces, and a pattern is evaluated on the pieces' own  *)
(* properties: length, all digits, all hex digits, the fragments the        *)
(* lower-cased text contains.                                               *)

MaxChunks == 3

Digits10 == "1234567890"

Hex32 == "a1b2c3d4e5f6a1b2c3d4e5f6a1b2c3d4"

LocalChunks == {"jane", "noreply", "Token", "+", Digits10, Hex32}

CandidateDomains == {"gmail.com", "x.com", "service.com", "b.abcdefghij"}

Candidates ==
  [local : UNION {[1..k -> LocalChunks] : k \in 0..MaxChunks},
   domain : CandidateDomains]

\* String.length of a piece
ChunkLength(c) ==
  CASE c = "jane" -> 4
    [] c = "noreply" -> 7
    [] c = "Token" -> 5
    [] c \in {"+", "@"} -> 1
    [] c = Digits10 -> 10
    [] c = Hex32 -> 32
    [] c = "gmail.com" -> 9
    [] c = "x.com" -> 5
    [] c = "service.com" -> 11
    [] c = "b.abcdefghij" -> 12

\* /^\d+$/ and /^[a-f0-9]+$/i on a piece
AllDigits(c) == c = Digits10

AllHex(c) == c \in {Digits10, Hex32}

\* The fragments of the validators' patterns that the lower-cased piece holds
FragmentsIn(c) ==
  CASE c = "noreply" -> {"noreply"}
    [] c = "Token" -> {"token"}
    [] OTHER -> {}

\* Length of the text after the last '.' of a domain
TldLength(domain) == IF domain = "b.abcdefghij" THEN 10 ELSE 3

\* The whole string: the local part, '@', the domain
Pieces(candidate) == candidate.local \o <<"@", candidate.domain>>

RECURSIVE TotalLength(_)
TotalLength(pieces) ==
  IF pieces = << >> THEN 0
  ELSE ChunkLength(Head(pieces)) + TotalLength(Tail(pieces))

Matches(pieces, fragments) ==
  \E i \in 1..Len(pieces) : FragmentsIn(pieces[i]) \cap fragments # {}

Pluses(pieces) == Cardinality({i \in 1..Len(pieces) : pieces[i] = "+"})

\* emailRegex of the content script: a non-empty local part of allowed
\* characters, '@', a domain ending in '.' and two or more letters
emailRegex(candidate) == Len(candidate.local) >= 1

\* The text patterns of invalidPatterns of the content script
contentFragments ==
  {"noreply", "no-reply", "support", "admin", "test", "example", "placeholder",
   "your.email", "token", "session", "auth", "key", "secret", "encrypted",
   "hash", "digest", "signature"}

validProviders ==
  {"gmail.com", "yahoo.com", "outlook.com", "hotmail.com", "icloud.com",
   "protonmail.com", "mail.com", "yandex.com", "zoho.com", "aol.com"}

\* invalidPatterns.some(pattern => pattern.test(lowerEmail)): every pattern
\* is tested on the whole string, so the two anchored ones ask the whole
\* string, '@' included, to be digits or hex digits.
contentIsInvalid(candidate) ==
  LET lowerEmail == Pieces(candidate)
  IN  \/ Matches(lowerEmail, contentFragments)
      \/ Pluses(lowerEmail) >= 2
      \/ /\ \A i \in 1..Len(lowerEmail) : AllDigits(lowerEmail[i])
         /\ TotalLength(lowerEmail) >= 10
      \/ /\ \A i \in 1..Len(lowerEmail) : AllHex(lowerEmail[i])
         /\ TotalLength(lowerEmail) >= 32
      \/ TldLength(candidate.domain) >= 10

\* isValidEmail of the content script
contentIsValidEmail(candidate) ==
  IF ~emailRegex(candidate) THEN FALSE
  ELSE IF contentIsInvalid(candidate) THEN FALSE
  ELSE IF candidate.domain \in validProviders THEN TRUE
  ELSE LET username == candidate.local
           usernameLength == TotalLength(username)
           domainLength == ChunkLength(candidate.domain)
       IN  IF usernameLength > 30 \/ usernameLength < 2 THEN FALSE
           ELSE IF domainLength > 50 \/ domainLength < 4 THEN FALSE
           ELSE IF \/ /\ \A i \in 1..Len(username) : AllHex(username[i])
                      /\ usernameLength >= 8
                   \/ /\ \A i \in 1..Len(username) : AllDigits(username[i])
                      /\ usernameLength >= 6
                THEN FALSE
                ELSE TRUE

\* The text patterns of invalidPatterns of the background script
backgroundFragments ==
  {"noreply", "no-reply", "support", "admin", "test", "example", "placeholder",
   "your.email"}

\* isValidEmail of the background script on a candidate
backgroundIsValidEmail(candidate) ==
  /\ ~Matches(Pieces(candidate), backgroundFragments)
  /\ "@" \in {Pieces(candidate)[i] : i \in 1..Len(Pieces(candidate))}
  /\ TotalLength(Pieces(candidate)) > 5

InitValidate ==
  /\ store = EmptyObject
  /\ settings = [isPaused |-> FALSE, disabledSites |-> << >>]
  /\ remoteRows = << >>
  /\ convex = FALSE
  /\ now = 0
  /\ steps = 0
  /\ merged = EmptyObject
  /\ last \in {[NoOp EXCEPT !.input = c] : c \in Candidates}
  /\ pending = << >>
  /\ search = NoSearch

Verdict(valid) == IF valid THEN "true" ELSE "false"

ContentIsValidEmail ==
  /\ last.op = "none"
  /\ last' = [last EXCEPT !.op = "content.isValidEmail",
                          !.success = Verdict(contentIsValidEmail(last.input))]
  /\ UNCHANGED <<pending, search, store, settings, remoteRows, convex, now, steps, merged>>

BackgroundIsValidEmail ==
  /\ last.op = "none"
  /\ last' = [last EXCEPT !.op = "background.isValidEmail",
                          !.success = Verdict(backgroundIsValidEmail(last.input))]
  /\ UNCHANGED <<pending, search, store, settings, remoteRows, convex, now, steps, merged>>

NextValidate ==
  \/ ContentIsValidEmail
  \/ BackgroundIsValidEmail

SpecValidate == InitValidate /\ [][NextValidate]_vars

----------------------------------------------------------------------------
(* The recursive JSON searches.  A JSON value is a string, null, an array   *)
(* or an object (its values in key order; the first key is 'email', the     *)
(* second 'data').  The documents are the values JSON.parse can return,     *)
(* nested up to MaxDepth deep.  search.stack holds the calls still to be    *)
(* made, the next one first, each with the path of its argument in the      *)
(* document; search.calls and search.ncalls record the calls made.          *)

MaxDepth == 3

Str(text) == [type |-> "string", text |-> text, items |-> << >>]

JsonNull == [type |-> "null", text |-> "", items |-> << >>]

Arr(items) == [type |-> "array", text |-> "", items |-> items]

Obj(items) == [type |-> "object", text |-> "", items |-> items]

Leaves == {Str("jane@gmail.com"), Str("hello"), JsonNull}

RECURSIVE Docs(_)
Docs(depth) ==
  IF depth = 0 THEN Leaves
  ELSE Leaves
       \cup {Arr(<<a, l>>) : a \in Docs(depth - 1), l \in Leaves}
       \cup {Obj(<<l, a>>) : l \in Leaves, a \in Docs(depth - 1)}

RECURSIVE NodeCount(_)
NodeCount(value) ==
  IF Len(value.items) = 0 THEN 1
  ELSE 1 + NodeCount(value.items[1])
         + (IF Len(value.items) = 2 THEN NodeCount(value.items[2]) ELSE 0)

SearchFunctions == {"searchJSONForEmail", "searchNestedForEmails", "searchJSONForGmail"}

Frame(path, value) == [path |-> path, value |-> value]

InitJson ==
  /\ store = EmptyObject
  /\ settings = [isPaused |-> FALSE, disabledSites |-> << >>]
  /\ remoteRows = << >>
  /\ convex = FALSE
  /\ now = 0
  /\ steps = 0
  /\ merged = EmptyObject
  /\ last \in {[NoOp EXCEPT !.input = d] : d \in Docs(MaxDepth)}
  /\ pending = << >>
  /\ search \in {[fn |-> f, stack |-> <<Frame(<< >>, last.input)>>, calls |-> {},
                   ncalls |-> 0, result |-> << >>] : f \in SearchFunctions}

\* String.match of the email pattern on a string of the documents
EmailMatches(text) == IF text = "jane@gmail.com" THEN <<text>> ELSE << >>

\* The recursive calls a call on an array or object makes, with one more on
\* the value itself: a fault the termination property has to detect.
ChildFrames_Again(frame) ==
  [i \in 1..Len(frame.value.items) |->
     Frame(Append(frame.path, i), frame.value.items[i])] \o <<frame>>

\* The recursive calls a call on an array or object makes, in order: one
\* for each element or property value.
ChildFrames(frame) ==
  [i \in 1..Len(frame.value.items) |->
     Frame(Append(frame.path, i), frame.value.items[i])]

\* Object.values(obj).forEach(value => { if (value && typeof value ===
\* 'object') ... }): the calls on the values that are arrays or objects
ObjectFrames(frame) ==
  SelectSeq(ChildFrames(frame), LAMBDA f : f.value.type \in {"array", "object"})

Called(frame) ==
  [search EXCEPT !.calls = @ \cup {frame.path}, !.ncalls = @ + 1]

\* One call of searchJSONForEmail: a string with an email ends the whole
\* search (every caller returns the result), an array or object calls on
\* each of its values in turn, anything else returns null.
SearchJSONForEmail ==
  /\ search.fn = "searchJSONForEmail"
  /\ search.stack # << >>
  /\ LET frame == Head(search.stack)
         obj == frame.value
     IN  search' =
           IF obj.type = "string"
           THEN IF EmailMatches(obj.text) # << >>
                THEN [Called(frame) EXCEPT !.stack = << >>,
                                           !.result = EmailMatches(obj.text)]
                ELSE [Called(frame) EXCEPT !.stack = Tail(search.stack)]
           ELSE IF obj.type \in {"array", "object"}
                THEN [Called(frame) EXCEPT
                        !.stack = ChildFrames(frame) \o Tail(search.stack)]
                ELSE [Called(frame) EXCEPT !.stack = Tail(search.stack)]
  /\ UNCHANGED <<store, settings, remoteRows, convex, now, steps, merged, last, pending>>

\* One call of searchNestedForEmails
SearchNestedForEmails ==
  /\ search.fn = "searchNestedForEmails"
  /\ search.stack # << >>
  /\ LET frame == Head(search.stack)
         obj == frame.value
     IN  search' =
           CASE obj.type = "string" ->
                  [Called(frame) EXCEPT !.stack = Tail(search.stack),
                                        !.result = @ \o EmailMatches(obj.text)]
             [] obj.type = "array" ->
                  [Called(frame) EXCEPT
                     !.stack = ChildFrames(frame) \o Tail(search.stack)]
             [] obj.type = "object" ->
                  [Called(frame) EXCEPT
                     !.stack = ObjectFrames(frame) \o Tail(search.stack)]
             [] OTHER -> [Called(frame) EXCEPT !.stack = Tail(search.stack)]
  /\ UNCHANGED <<store, settings, remoteRows, convex, now, steps, merged, last, pending>>

\* One call of searchJSONForGmail: as searchNestedForEmails, and an object
\* first looks at its own string properties with email field names (here
\* 'email', the first property).
SearchJSONForGmail ==
  /\ search.fn = "searchJSONForGmail"
  /\ search.stack # << >>
  /\ LET frame == Head(search.stack)
         obj == frame.value
     IN  search' =
           CASE obj.type = "string" ->
                  [Called(frame) EXCEPT !.stack = Tail(search.stack),
                                        !.result = @ \o EmailMatches(obj.text)]
             [] obj.type = "array" ->
                  [Called(frame) EXCEPT
                     !.stack = ChildFrames(frame) \o Tail(search.stack)]
             [] obj.type = "object" ->
                  [Called(frame) EXCEPT
                     !.stack = ObjectFrames(frame) \o Tail(search.stack),
                     !.result = @ \o (IF obj.items[1].type = "string"
                                      THEN EmailMatches(obj.items[1].text)
                                      ELSE << >>)]
             [] OTHER -> [Called(frame) EXCEPT !.stack = Tail(search.stack)]
  /\ UNCHANGED <<store, settings, remoteRows, convex, now, steps, merged, last, pending>>

NextJson ==
  \/ SearchJSONForEmail
  \/ SearchNestedForEmails
  \/ SearchJSONForGmail

\* A call that has been made returns or makes its next call: the
\* JavaScript engine runs the search to its end.
SpecJson == InitJson /\ [][NextJson]_vars /\ WF_vars(NextJson)

----------------------------------------------------------------------------
(* Properties *)

EmailsOf(list) == {list[i].email : i \in 1..Len(list)}

Occurrences(list, email) ==
  Cardinality({i \in 1..Len(list) : list[i].email = email})

RecordOf(list, email) == list[FindIndex(list, email)]

UpsertOps == {"storeEmailMapping", "LOGIN_DETECTED", "saveEmailMapping"}

OperationStep == steps' = steps + 1

\* C1: no domain's record list holds two records with the same email.
C1_UniqueEmails ==
  \A d \in DOMAIN store : \A i, j \in 1..Len(store[d]) :
    i # j => store[d][i].email # store[d][j].email

\* C2: when an upsert path records an email that its previous call, on the
\* same path for the same domain and email, has inserted, the persisted list
\* holds exactly one record for that email and its count is 2.
C2_TwiceCountsTwo ==
  [][ ( /\ OperationStep
        /\ last.op \in UpsertOps
        /\ last'.op = last.op
        /\ last'.domain = last.domain
        /\ last'.email = last.email
        /\ ~last.existed
        /\ last.success # "false"
        /\ last'.success # "false" )
      => /\ Occurrences(ListOf(store', last'.domain), last'.email) = 1
         /\ RecordOf(ListOf(store', last'.domain), last'.email).count = 2 ]_vars

ExtractionOps == {"webRequest", "storeEmailMapping", "LOGIN_DETECTED"}

\* C3: while trackingSettings.isPaused is true, neither a completed web
\* request nor a LOGIN_DETECTED message changes the persisted store.
C3_PausedStoresNothing ==
  [][ (OperationStep /\ settings.isPaused /\ last'.op \in ExtractionOps)
      => store' = store ]_vars

InsertOps == {"storeEmailMapping", "LOGIN_DETECTED", "ADD_EMAIL"}

Inserted(op) ==
  /\ OperationStep
  /\ last'.op = op
  /\ last'.success # "false"
  /\ FindIndex(ListOf(store, last'.domain), last'.email) = 0

\* C4: every list of the local store has at most 10 records; a background
\* handler that inserts a new email into a list of 10 leaves 10; a
\* saveEmailMapping that inserts a new email leaves at most 5, and exactly 5
\* when the list held 5.
C4_ListsCapped ==
  /\ \A d \in DOMAIN store : Len(store[d]) <= 10
  /\ [][ /\ \A d \in DOMAIN store' : Len(store'[d]) <= 10
         /\ \A op \in InsertOps :
              (Inserted(op) /\ Len(ListOf(store, last'.domain)) = 10)
              => Len(store'[last'.domain]) = 10
         /\ Inserted("saveEmailMapping")
            => /\ Len(store'[last'.domain]) <= 5
               /\ Len(ListOf(store, last'.domain)) = 5
                  => Len(store'[last'.domain]) = 5 ]_vars

\* C4 happens: the first operation inserted a new email into the full list
\* of 10 (the list still has 10 records, the new one first, the last gone).
C4_Witness ==
  /\ steps = 1
  /\ last.op \in InsertOps
  /\ last.email = "new@x.com"
  /\ last.domain = ExampleCom
  /\ ExampleCom \in DOMAIN store
  /\ Len(store[ExampleCom]) = 10
  /\ store[ExampleCom][1].email = "new@x.com"
  /\ "u01@x.com" \notin EmailsOf(store[ExampleCom])

SortedByLastSeen(list) ==
  \A i, j \in 1..Len(list) : i < j => list[i].timestamp >= list[j].timestamp

\* C5: an upsert keeps a list that is ordered most-recently-touched first in
\* that order, and the record an overflowing insert evicts is the one with
\* the smallest timestamp.
C5_MostRecentFirst ==
  [][ \A op \in {"LOGIN_DETECTED", "saveEmailMapping"} :
        ( /\ OperationStep
          /\ last'.op = op
          /\ last'.success # "false"
          /\ SortedByLastSeen(ListOf(store, last'.domain)) )
        => LET before == ListOf(store, last'.domain)
               after == store'[last'.domain]
           IN  /\ SortedByLastSeen(after)
               /\ \A i \in 1..Len(before) :
                    before[i].email \notin EmailsOf(after)
                    => \A j \in 1..Len(before) :
                         before[i].timestamp <= before[j].timestamp ]_vars

EditOrDeleteOps ==
  {"EDIT_EMAIL", "EDIT_DOMAIN", "DELETE_EMAIL", "DELETE_DOMAIN", "CLEAR_MAPPINGS"}

\* C6: the count of a (domain, email) record that stays in the local store
\* never decreases across a step that is no explicit edit or delete.
C6_CountNeverDecreases ==
  [][ (OperationStep /\ last'.op \notin EditOrDeleteOps)
      => \A d \in (DOMAIN store) \cap (DOMAIN store') :
           \A e \in EmailsOf(store[d]) \cap EmailsOf(store'[d]) :
             RecordOf(store'[d], e).count >= RecordOf(store[d], e).count ]_vars

RECURSIVE ContentOf(_, _)
ContentOf(mappings, keys) ==
  IF keys = {} THEN {}
  ELSE LET d == CHOOSE k \in keys : TRUE
       IN  {<<d, mappings[d][i].email, mappings[d][i].timestamp,
              mappings[d][i].count>> : i \in 1..Len(mappings[d])}
           \cup ContentOf(mappings, keys \ {d})

\* C7: after syncWithConvex has returned success:true, the local store and
\* the remote store both hold the merged result: the same domains, emails,
\* timestamps and counts.
C7_SyncWritesMergedToBoth ==
  (last.op = "syncWithConvex" /\ last.success = "true")
  => /\ DOMAIN store = DOMAIN merged
     /\ ContentOf(store, DOMAIN store) = ContentOf(merged, DOMAIN merged)
     /\ DOMAIN getUserMappings(remoteRows) = DOMAIN merged
     /\ ContentOf(getUserMappings(remoteRows), DOMAIN merged)
          = ContentOf(merged, DOMAIN merged)

RemoteData == getUserMappings(remoteRows)

RecordsOf(list, email) == {list[i] : i \in {k \in 1..Len(list) : list[k].email = email}}

Newest(records) == CHOOSE t \in {r.timestamp : r \in records} :
                     \A r \in records : r.timestamp <= t

RECURSIVE PairsOf(_, _)
PairsOf(mappings, keys) ==
  IF keys = {} THEN {}
  ELSE LET d == CHOOSE k \in keys : TRUE
       IN  {<<d, e>> : e \in EmailsOf(mappings[d])} \cup PairsOf(mappings, keys \ {d})

LatestWinsMerged ==
  \/ last.op = "smartMerge" /\ last.strategy = "LATEST_WINS"
  \/ last.op = "mergeMappings"

\* C8: under LATEST_WINS (smartMerge, and the Convex mutation mergeMappings),
\* for every domain and email present in both stores the merged list holds
\* one record for the email: the local record when its timestamp is greater,
\* else the remote record, so its timestamp is the maximum of the two.  (Of a
\* local list that holds the email twice, the newest record stands for it.)
C8_LatestWins ==
  LatestWinsMerged
  => \A d \in (DOMAIN store) \cap (DOMAIN RemoteData) :
       \A e \in EmailsOf(store[d]) \cap EmailsOf(RemoteData[d]) :
         LET locals == RecordsOf(store[d], e)
             r == RecordOf(RemoteData[d], e)
             m == RecordOf(merged[d], e)
         IN  /\ Occurrences(merged[d], e) = 1
             /\ IF Newest(locals) > r.timestamp
                THEN m \in locals ELSE m = r
             /\ m.timestamp = Max(Newest(locals), r.timestamp)

\* C8 happens: a LATEST_WINS merge where one email's local record is newer
\* and won, and another email's two records have equal timestamps and the
\* remote one was kept.
C8_Witness ==
  /\ last.op = "smartMerge"
  /\ last.strategy = "LATEST_WINS"
  /\ \E d \in (DOMAIN store) \cap (DOMAIN RemoteData) :
       \E e1, e2 \in MergeEmailSet :
         /\ Occurrences(store[d], e1) = 1
         /\ Occurrences(store[d], e2) = 1
         /\ Occurrences(RemoteData[d], e1) = 1
         /\ Occurrences(RemoteData[d], e2) = 1
         /\ RecordOf(store[d], e1).timestamp > RecordOf(RemoteData[d], e1).timestamp
         /\ RecordOf(merged[d], e1) = RecordOf(store[d], e1)
         /\ RecordOf(store[d], e2).timestamp = RecordOf(RemoteData[d], e2).timestamp
         /\ RecordOf(merged[d], e2) = RecordOf(RemoteData[d], e2)
         /\ RecordOf(merged[d], e2) # RecordOf(store[d], e2)

\* C9: for every strategy the (domain, email) pairs of the merged store are
\* the union of the local and the remote pairs; a remote record whose email
\* the local list lacks stays where and as it is; for an email the remote
\* list lacks the merged list holds one record, an unchanged local record.
C9_MergeIsUnion ==
  last.op = "smartMerge"
  => /\ PairsOf(merged, DOMAIN merged)
          = PairsOf(store, DOMAIN store) \cup PairsOf(RemoteData, DOMAIN RemoteData)
     /\ \A d \in DOMAIN RemoteData : \A i \in 1..Len(RemoteData[d]) :
          RemoteData[d][i].email \notin EmailsOf(ListOf(store, d))
          => /\ d \in DOMAIN merged
             /\ i <= Len(merged[d])
             /\ merged[d][i] = RemoteData[d][i]
     /\ \A d \in DOMAIN store : \A e \in EmailsOf(store[d]) :
          e \notin EmailsOf(ListOf(RemoteData, d))
          => /\ d \in DOMAIN merged
             /\ Occurrences(merged[d], e) = 1
             /\ RecordOf(merged[d], e) \in RecordsOf(store[d], e)

\* C9 happens: a merge of a domain whose local list has an email the remote
\* list lacks and whose remote list has an email the local list lacks, and
\* of a domain only the local store has.
C9_Witness ==
  /\ last.op = "smartMerge"
  /\ ExampleCom \in (DOMAIN store) \cap (DOMAIN RemoteData)
  /\ EmailsOf(store[ExampleCom]) = {"a@x.com"}
  /\ EmailsOf(RemoteData[ExampleCom]) = {"b@x.com"}
  /\ WwwExampleCom \in (DOMAIN store) \ (DOMAIN RemoteData)
  /\ EmailsOf(merged[ExampleCom]) = {"a@x.com", "b@x.com"}
  /\ merged[WwwExampleCom] = store[WwwExampleCom]

\* C10: for every domain and email present in both stores, the merged list
\* holds one record for the email: a local record under LOCAL_WINS, the
\* remote record under REMOTE_WINS, whatever the timestamps.
C10_LocalOrRemoteWins ==
  (last.op = "smartMerge" /\ last.strategy \in {"LOCAL_WINS", "REMOTE_WINS"})
  => \A d \in (DOMAIN store) \cap (DOMAIN RemoteData) :
       \A e \in EmailsOf(store[d]) \cap EmailsOf(RemoteData[d]) :
         /\ Occurrences(merged[d], e) = 1
         /\ IF last.strategy = "LOCAL_WINS"
            THEN RecordOf(merged[d], e) \in RecordsOf(store[d], e)
            ELSE RecordOf(merged[d], e) = RecordOf(RemoteData[d], e)

\* C10 happens: a LOCAL_WINS merge kept the local record although the remote
\* one is newer.
C10_Witness ==
  /\ last.op = "smartMerge"
  /\ last.strategy = "LOCAL_WINS"
  /\ \E d \in (DOMAIN store) \cap (DOMAIN RemoteData) : \E e \in MergeEmailSet :
       /\ Occurrences(store[d], e) = 1
       /\ Occurrences(RemoteData[d], e) = 1
       /\ RecordOf(store[d], e).timestamp < RecordOf(RemoteData[d], e).timestamp
       /\ RecordOf(merged[d], e) = RecordOf(store[d], e)

\* C11: syncWithConvex always resolves to a result (success true or false),
\* with an error whenever success is false; without a client it reports
\* failure and changes neither store; it reports failure when the query, the
\* mutation or a local storage write failed, so a success means both writes
\* completed.
C11_SyncReportsFailures ==
  [][ (OperationStep /\ last'.op = "syncWithConvex")
      => /\ last'.success \in {"true", "false"}
         /\ last'.success = "false" => last'.error # Undefined
         /\ ~convex => /\ last'.success = "false"
                       /\ store' = store
                       /\ remoteRows' = remoteRows
         /\ last'.fault # "none" => last'.success = "false"
         /\ last'.success = "true"
            => /\ last'.fault \notin {"clear", "save"}
               /\ getUserMappings(remoteRows') = merged' ]_vars

\* C12: when a handler's write succeeds after another upsert for the same
\* domain with a different, new email has read the same list, written and
\* been answered in between, the store then lacks that other email, and both
\* LOGIN_DETECTED requests are answered success:true.
C12_LostUpdate ==
  [][ \A h, g \in DOMAIN pending :
        ( /\ h # g
          /\ pending[h].pc = "read"
          /\ pending'[h].pc = "done"
          /\ pending'[h].wroteAt > 0
          /\ pending[g].pc = "done"
          /\ pending[g].wroteAt > pending[h].readAt
          /\ pending[g].domain = pending[h].domain
          /\ pending[g].email # pending[h].email
          /\ ListOf(pending[g].result, pending[g].domain)
               = ListOf(pending[h].result, pending[h].domain)
          /\ pending[g].email
               \notin EmailsOf(ListOf(pending[g].result, pending[g].domain)) )
        => /\ pending[g].email \notin EmailsOf(store'[pending[h].domain])
           /\ pending[h].email \in EmailsOf(store'[pending[h].domain])
           /\ pending[g].type = "LOGIN_DETECTED" => pending[g].reply = "true"
           /\ pending[h].type = "LOGIN_DETECTED" => pending'[h].reply = "true" ]_vars

\* C12 happens: two LOGIN_DETECTED handlers for example.com, with different
\* new emails, both read the list before either wrote; both are answered
\* success:true and the store lacks the email of the one that wrote first.
C12_Witness ==
  \E h, g \in DOMAIN pending :
    /\ pending[h].pc = "done" /\ pending[g].pc = "done"
    /\ pending[h].type = "LOGIN_DETECTED" /\ pending[g].type = "LOGIN_DETECTED"
    /\ pending[h].domain = ExampleCom /\ pending[g].domain = ExampleCom
    /\ pending[g].email = "new@x.com" /\ pending[h].email # "new@x.com"
    /\ pending[h].result = pending[g].result
    /\ pending[h].readAt < pending[g].wroteAt
    /\ pending[g].wroteAt < pending[h].wroteAt
    /\ pending[g].reply = "true" /\ pending[h].reply = "true"
    /\ ExampleCom \in DOMAIN store
    /\ "new@x.com" \notin EmailsOf(store[ExampleCom])
    /\ pending[h].email \in EmailsOf(store[ExampleCom])

\* C13: every key of the store is a normalized domain: getRootDomain maps
\* it to itself.
C13_KeysNormalized == \A k \in DOMAIN store : getRootDomain(k) = k

UpsertHit(op) ==
  /\ OperationStep
  /\ last'.op = op
  /\ last'.existed
  /\ last'.success # "false"

UpdatedInPlace ==
  LET d == last'.domain
      i == FindIndex(store[d], last'.email)
  IN  /\ DOMAIN store' = DOMAIN store
      /\ \A k \in (DOMAIN store) \ {d} : store'[k] = store[k]
      /\ Len(store'[d]) = Len(store[d])
      /\ \A j \in (1..Len(store[d])) \ {i} : store'[d][j] = store[d][j]
      /\ store'[d][i] = [store[d][i] EXCEPT !.timestamp = now',
                                            !.apiUrl = last'.url,
                                            !.count = @ + 1]

\* C14: an upsert of an email the domain's list already holds leaves the
\* persisted record with the new timestamp, the new source URL and its count
\* plus one, at the same position, and every other record as it was.
C14_UpsertUpdatesInPlace ==
  [][ \A op \in UpsertOps : UpsertHit(op) => UpdatedInPlace ]_vars

\* C15: DELETE_EMAIL replies success:true exactly when the domain's list
\* held a record with the email, and then the list holds it no more.
C15_DeleteReportsFound ==
  [][ (OperationStep /\ last'.op = "DELETE_EMAIL")
      => LET found == last'.email \in EmailsOf(ListOf(store, last'.domain))
         IN  /\ last'.success = "true" <=> found
             /\ last'.success = "false" <=> ~found
             /\ last'.email \notin EmailsOf(ListOf(store', last'.domain)) ]_vars

ZeroStats == [totalDomains |-> 0, totalEmails |-> 0, totalLogins |-> 0]

\* C16: DELETE_EMAIL of the only record of a domain removes the domain's key
\* and leaves the other domains as they were; the statistics then count one
\* domain less, and when the store held just that record they are all 0.
C16_LastRecordRemovesDomain ==
  [][ ( /\ OperationStep
        /\ last'.op = "DELETE_EMAIL"
        /\ last'.domain \in DOMAIN store
        /\ Len(store[last'.domain]) = 1
        /\ store[last'.domain][1].email = last'.email )
      => /\ DOMAIN store' = (DOMAIN store) \ {last'.domain}
         /\ \A k \in DOMAIN store' : store'[k] = store[k]
         /\ getStorageStats(store').totalDomains
              = getStorageStats(store).totalDomains - 1
         /\ DOMAIN store = {last'.domain} => getStorageStats(store') = ZeroStats ]_vars

\* C16 happens: the second operation removed new@x.com, the only record of
\* the store, and the statistics of the store are all 0.
C16_Witness ==
  /\ steps = 2
  /\ last.op = "DELETE_EMAIL"
  /\ last.email = "new@x.com"
  /\ last.success = "true"
  /\ DOMAIN store = {}
  /\ getStorageStats(store) = ZeroStats

AllRecords(mappings) ==
  UNION { {mappings[d][i] : i \in 1..Len(mappings[d])} : d \in DOMAIN mappings }

DeleteOps == {"DELETE_EMAIL", "DELETE_DOMAIN", "CLEAR_MAPPINGS"}

\* An insert of a new email into a list that is at or over the cap of the
\* inserting operation.
CapEviction ==
  /\ last'.op \in InsertOps \cup {"saveEmailMapping"}
  /\ FindIndex(ListOf(store, last'.domain), last'.email) = 0
  /\ Len(ListOf(store, last'.domain))
       >= (IF last'.op = "saveEmailMapping" THEN 5 ELSE 10)

\* C18: an operation of the background script or the storage utility that is
\* no delete, no clear-all and no insert into a full list leaves the store
\* with at least as many records as before, and EDIT_DOMAIN leaves every
\* record that was in the store in the store.
C18_RecordsLeaveOnlyByDelete ==
  [][ (OperationStep /\ last'.op \notin DeleteOps \cup {"syncWithConvex"})
      => /\ ~CapEviction
            => SumLengths(store', DOMAIN store') >= SumLengths(store, DOMAIN store)
         /\ last'.op = "EDIT_DOMAIN" => AllRecords(store) \subseteq AllRecords(store') ]_vars

\* C19: the reply to a message of a handled type has a boolean success field,
\* and an error string when success is false.
C19_RepliesCarrySuccess ==
  last.op \in MessageTypes
  => /\ last.success \in {"true", "false"}
     /\ last.success = "false" => last.error # Undefined

\* C20: getRootDomain is idempotent: it maps every value it returns to
\* itself.
C20_NormalizeIdempotent ==
  last.op = "getRootDomain" => getRootDomain(last.domain) = last.domain

IsSuffixOf(r, h) ==
  /\ Len(r) <= Len(h)
  /\ \A i \in 1..Len(r) : r[i] = h[Len(h) - Len(r) + i]

LastTwo(h) == <<h[Len(h) - 1], h[Len(h)]>>

\* What the contract asks of the result r for the hostname h, with tlds the
\* fixed set of two-part suffixes.
RootDomainContract(h, r, tlds) ==
  IF h = NoDomain THEN r = h
  ELSE LET lower == [i \in 1..Len(h) |-> IF h[i] = "WWW" THEN "www" ELSE h[i]]
           stripped == Len(lower) >= 2 /\ lower[1] = "www"
           labels == IF stripped THEN Len(lower) - 1 ELSE Len(lower)
       IN  /\ IsSuffixOf(r, lower)
           /\ Len(r) = IF labels <= 2 THEN labels
                        ELSE IF LastTwo(lower) \in tlds THEN 3 ELSE 2

\* C21: getRootDomain (both copies) returns the empty hostname unchanged and
\* otherwise labels of the lower-cased hostname: all of them but one leading
\* "www" when these are at most two, else the last three when the last two
\* are in the copy's set of two-part suffixes, else the last two.
C21_RootDomainContract ==
  /\ last.op = "getRootDomain"
     => RootDomainContract(last.input, last.domain, separateTlds)
  /\ last.op = "DomainUtils.getRootDomain"
     => RootDomainContract(last.input, last.domain, SEPARATE_TLDS)

\* C21 happens: getRootDomain('WWW.example.co.uk') returned 'example.co.uk'.
C21_Witness ==
  /\ last.op = "getRootDomain"
  /\ last.input = <<"WWW", "example", "co", "uk">>
  /\ last.domain = <<"example", "co", "uk">>

ValidatorOps == {"content.isValidEmail", "background.isValidEmail"}

Denylist ==
  {"noreply", "support", "admin", "test", "example", "placeholder", "token",
   "session", "auth", "key", "secret", "hash", "digest", "signature"}

LocalAllDigits(candidate) ==
  /\ \A i \in 1..Len(candidate.local) : AllDigits(candidate.local[i])
  /\ TotalLength(candidate.local) >= 10

LocalAllHex(candidate) ==
  /\ \A i \in 1..Len(candidate.local) : AllHex(candidate.local[i])
  /\ TotalLength(candidate.local) >= 32

MustReject(candidate) ==
  \/ Matches(Pieces(candidate), Denylist)
  \/ Pluses(Pieces(candidate)) > 1
  \/ LocalAllDigits(candidate)
  \/ LocalAllHex(candidate)
  \/ TldLength(candidate.domain) > 9

\* C22: a validator rejects every well-formed candidate that holds a denylist
\* fragment, has more than one plus sign, has an all-digit local part of 10
\* or more characters, a hex local part of 32 or more characters or a TLD
\* longer than 9 characters, whatever its domain.
C22_RejectionBeforeAllowlist ==
  (last.op \in ValidatorOps /\ emailRegex(last.input) /\ MustReject(last.input))
  => last.success = "false"

\* C23: every email that a completed web request or a LOGIN_DETECTED message
\* of the content script adds to the store is one the validator accepts.
C23_StoredEmailsValidated ==
  [][ (OperationStep /\ last'.op \in ExtractionOps)
      => \A d \in DOMAIN store' :
           \A e \in EmailsOf(store'[d]) \ EmailsOf(ListOf(store, d)) :
             isValidEmail(e) ]_vars

\* C24: a saveEmailMapping during which the read or the write of the store
\* fails returns false and leaves the persisted store as it was.
C24_SaveFailureKeepsStore ==
  [][ (OperationStep /\ last'.op = "saveEmailMapping" /\ last'.fault # "none")
      => /\ last'.success = "false"
         /\ store' = store ]_vars

\* C25: a search of a document makes at most one call for each nested value,
\* so at most as many calls as the document has values, and it ends.
C25_JsonSearchTerminates ==
  /\ [](search.fn \in SearchFunctions
        => /\ search.ncalls = Cardinality(search.calls)
           /\ search.ncalls <= NodeCount(last.input))
  /\ <>(search.stack = << >>)

\* C25 happens: searchNestedForEmails has ended on a document nested three
\* deep, after a call on a value of the innermost array or object.
C25_Witness ==
  /\ search.fn = "searchNestedForEmails"
  /\ search.stack = << >>
  /\ \E path \in search.calls : Len(path) = 3
  /\ search.ncalls >= 4

\* C26: the EDIT_EMAIL message of the popup's edit form, sent for a stored
\* record of the domain with a valid new email, is answered success:true and
\* the domain's list then holds newEmail in the place of one of its records,
\* the other records unchanged.
C26_PopupEditRenames ==
  [][ (OperationStep /\ last'.op = "EDIT_EMAIL")
      => /\ last'.success = "true"
         /\ last'.domain \in DOMAIN store'
         /\ Len(store'[last'.domain]) = Len(store[last'.domain])
         /\ \E i \in 1..Len(store[last'.domain]) :
              /\ store'[last'.domain][i].email = last'.newEmail
              /\ \A j \in (1..Len(store[last'.domain])) \ {i} :
                   store'[last'.domain][j] = store[last'.domain][j] ]_vars

\* C27: a message answered success:false leaves the persisted store and the
\* tracking settings as they were before it.
C27_FailureChangesNothing ==
  [][ (OperationStep /\ last'.op \in MessageTypes /\ last'.success = "false")
      => /\ store' = store
         /\ settings' = settings ]_vars

\* C27 happens: the first message, an ADD_EMAIL of u01@x.com to example.com
\* that holds it, was answered success:false and the five records are as
\* they were.
C27_Witness ==
  /\ steps = 1
  /\ last.op = "ADD_EMAIL"
  /\ last.success = "false"
  /\ last.email = "u01@x.com"
  /\ last.domain = ExampleCom
  /\ store = [d \in {ExampleCom} |-> Prefill(5)]

\* A login the sync's write-back ran over: handler h of LOGIN_DETECTED was
\* answered success:true after the store was cleared and before the last
\* save returned, and no other handler wrote after h read.
AnsweredDuringWriteBack(h) ==
  /\ pending[h].type = "LOGIN_DETECTED"
  /\ pending[h].reply = "true"
  /\ pending[SyncTask].clearedAt > 0
  /\ pending[h].wroteAt > pending[SyncTask].clearedAt
  /\ pending[SyncTask].savedAt > pending[h].wroteAt
  /\ \A g \in Logins \ {h} : pending[g].wroteAt < pending[h].readAt

\* C28: a login answered success:true while the sync's local write-back is
\* in progress is in the local store when the sync has completed.
C28_LoginSurvivesWriteBack ==
  pending[SyncTask].pc = "done"
    => \A h \in Logins :
         AnsweredDuringWriteBack(h)
           => pending[h].email \in EmailsOf(ListOf(store, pending[h].domain))

\* C29: no domain key of the persisted store maps to an empty list.
C29_NoEmptyDomain ==
  \A d \in DOMAIN store : Len(store[d]) > 0

\* C29 happens: www.example.com got its first record by an ADD_EMAIL and
\* lost it by a DELETE_EMAIL; the key is gone and example.com keeps its five.
C29_Witness ==
  /\ steps = 2
  /\ last.op = "DELETE_EMAIL"
  /\ last.domain = WwwExampleCom
  /\ last.success = "true"
  /\ DOMAIN store = {ExampleCom}
  /\ Len(store[ExampleCom]) = 5

====
